---- MODULE Spec2Model ----
(***************************************************************************)
(* A model of the Voxelate plugin: the voxel grid (FVoxelGrid), the        *)
(* occupancy store (FVoxelData) and the rasterizer loop (FVoxelator).      *)
(*                                                                         *)
(* World-space reals are modelled as exact integers in a fixed world unit  *)
(* (every quantity of the grid arithmetic is scale invariant), so floor    *)
(* and ceil of a quotient are exact; floating-point rounding is not        *)
(* modelled.  checkf is modelled as enabled: a failed check aborts the     *)
(* operation with an error and no further assignment.                      *)
(***************************************************************************)
EXTENDS Integers, Sequences, FiniteSets, TLC

VARIABLES
    grid,        \* SpecGrid: the FVoxelGrid under test
    inSize,      \* SpecGrid: the cell size last handed to Init
    inBox,       \* SpecGrid: the box last handed to Init
    q,           \* SpecGrid: the last conversion query and its results
    G,           \* the global FVoxelData (OutVoxelData / this)
    S,           \* the other FVoxelData (LocalVoxelData / InVoxelData)
    err,         \* the failed check of the last operation, "none" if none
    last,        \* history: the last store operation and the state before it
    nsets,       \* number of SetOccupancy calls made so far
    pc,          \* SpecRaster: the step the rasterizer executes next
    shape,       \* SpecRaster: the component being processed
    nshapes,     \* SpecRaster: number of components taken so far
    localBounds, \* SpecRaster: Component->Bounds.GetBox()
    cursor,      \* SpecRaster: number of loop iterations done in the Process* loop
    gCall,       \* history: G's cells when the Voxelate* call started
    gShape,      \* history: G's cells when the current component was started
    marked       \* history: global coordinates set by the merged local stores

gridVars   == <<grid, inSize, inBox, q>>
storeVars  == <<G, S, err, last, nsets>>
rasterVars == <<pc, shape, nshapes, localBounds, cursor, gCall, gShape, marked>>
vars       == <<grid, inSize, inBox, q, G, S, err, last, nsets,
                pc, shape, nshapes, localBounds, cursor, gCall, gShape, marked>>

----------------------------------------------------------------------------
(* Bounds of the model *)

\* largest world coordinate of an input box handed to Init
MaxCoord == 2
\* largest cell size per axis handed to Init
MaxSize == 2
\* total number of SetOccupancy calls in a behaviour of SpecCombine
MaxSets == 2
\* number of components one Voxelate* call iterates over
MaxShapes == 2
\* number of cells already true in the global store when a Voxelate* call starts
MaxPreset == 1

----------------------------------------------------------------------------
(* FVector / FIntVector / FBox *)

Vec(x, y, z) == [x |-> x, y |-> y, z |-> z]
ZeroVector == Vec(0, 0, 0)
VecAdd(a, b) == Vec(a.x + b.x, a.y + b.y, a.z + b.z)
Box(mn, mx) == [min |-> mn, max |-> mx]

\* FMath::FloorToFloat(a / b), FMath::FloorToInt(a / b) for b > 0
FloorDiv(a, b) == a \div b
\* FMath::CeilToFloat(a / b), FMath::CeilToInt(a / b) for b > 0
CeilDiv(a, b) == 0 - ((0 - a) \div b)

\* FBox::IsInsideOrOn(const FVector&)
BoxIsInsideOrOn(b, p) ==
    /\ p.x >= b.min.x /\ p.x <= b.max.x
    /\ p.y >= b.min.y /\ p.y <= b.max.y
    /\ p.z >= b.min.z /\ p.z <= b.max.z

\* FBox::IsInsideOrOn(const FBox&): Other lies in this box, faces included
BoxIsInsideOrOnBox(b, other) ==
    BoxIsInsideOrOn(b, other.min) /\ BoxIsInsideOrOn(b, other.max)

----------------------------------------------------------------------------
(* FVoxelGrid *)

NoOffset == [set |-> FALSE, v |-> ZeroVector]
SomeOffset(v) == [set |-> TRUE, v |-> v]

\* a default-constructed FVoxelGrid
NoGrid == [size |-> ZeroVector, bounds |-> Box(ZeroVector, ZeroVector),
           count |-> ZeroVector, offset |-> NoOffset]

\* FVoxelGrid::Init: BoundsMin, rounded down to a multiple of the cell size
SnapMin(box, size) ==
    Vec(FloorDiv(box.min.x, size.x) * size.x,
        FloorDiv(box.min.y, size.y) * size.y,
        FloorDiv(box.min.z, size.z) * size.z)

SnapMaxFloor(box, size) ==
    Vec(FloorDiv(box.max.x, size.x) * size.x,
        FloorDiv(box.max.y, size.y) * size.y,
        FloorDiv(box.max.z, size.z) * size.z)

\* FVoxelGrid::Init: BoundsMax, rounded up to a multiple of the cell size
SnapMax(box, size) ==
    Vec(CeilDiv(box.max.x, size.x) * size.x,
        CeilDiv(box.max.y, size.y) * size.y,
        CeilDiv(box.max.z, size.z) * size.z)

\* FVoxelGrid::Init(const FVector&, const FBox&)
GridInit(size, box) ==
    LET mn == SnapMin(box, size)
        mx == SnapMax(box, size)
    IN  [size   |-> size,
         bounds |-> Box(mn, mx),
         count  |-> Vec(CeilDiv(mx.x - mn.x, size.x),
                        CeilDiv(mx.y - mn.y, size.y),
                        CeilDiv(mx.z - mn.z, size.z)),
         offset |-> NoOffset]

GetVoxelCount(g) == g.count.x * g.count.y * g.count.z

IsVoxelIndexValid(g, i) == i >= 0 /\ i < GetVoxelCount(g)

IsVoxelCoordinateValid(g, c) ==
    /\ c.x >= 0 /\ c.x < g.count.x
    /\ c.y >= 0 /\ c.y < g.count.y
    /\ c.z >= 0 /\ c.z < g.count.z

IsLocationInBounds(g, p) == BoxIsInsideOrOn(g.bounds, p)

IsGridInside(g, other) == BoxIsInsideOrOnBox(g.bounds, other.bounds)

GetVoxelIndexYFastest(g, c) == c.y + c.x * g.count.y + c.z * g.count.x * g.count.y

\* FVoxelGrid::GetVoxelIndex(const FIntVector&), past its checkf
GetVoxelIndex(g, c) == c.x + c.y * g.count.x + c.z * g.count.x * g.count.y

GetVoxelCoordinateLocCeil(g, p) ==
    Vec(CeilDiv(p.x - g.bounds.min.x, g.size.x),
        CeilDiv(p.y - g.bounds.min.y, g.size.y),
        CeilDiv(p.z - g.bounds.min.z, g.size.z))

\* FVoxelGrid::GetVoxelCoordinate(const FVector&), past its checkf
GetVoxelCoordinateLoc(g, p) ==
    Vec(FloorDiv(p.x - g.bounds.min.x, g.size.x),
        FloorDiv(p.y - g.bounds.min.y, g.size.y),
        FloorDiv(p.z - g.bounds.min.z, g.size.z))

GetVoxelCoordinateDivY(g, i) ==
    LET Z == i \div (g.count.x * g.count.y)
        Y == (i - Z * g.count.x * g.count.y) \div g.count.y
        X == i - Z * g.count.x * g.count.y - Y * g.count.x
    IN  Vec(X, Y, Z)

\* FVoxelGrid::GetVoxelCoordinate(const int32), past its checkf
GetVoxelCoordinate(g, i) ==
    LET Z == i \div (g.count.x * g.count.y)
        Y == (i - Z * g.count.x * g.count.y) \div g.count.x
        X == i - Z * g.count.x * g.count.y - Y * g.count.x
    IN  Vec(X, Y, Z)

\* FVoxelGrid::GetVoxelBounds(const FIntVector&), past its checkf
GetVoxelBounds(g, c) ==
    LET mn == Vec(g.bounds.min.x + c.x * g.size.x,
                  g.bounds.min.y + c.y * g.size.y,
                  g.bounds.min.z + c.z * g.size.z)
    IN  Box(mn, VecAdd(mn, g.size))

GridInitSubZeroOffset(parent, box) ==
    [GridInit(parent.size, box) EXCEPT !.offset = SomeOffset(ZeroVector)]

\* FVoxelGrid::Init(const FVoxelGrid&, const FBox&), past its checkf
GridInitSub(parent, box) ==
    [GridInit(parent.size, box) EXCEPT
        !.offset = SomeOffset(GetVoxelCoordinateLoc(parent, box.min))]

GetSubGridClipped(parent, box) ==
    LET clip == Box(Vec(IF box.min.x < parent.bounds.min.x THEN parent.bounds.min.x ELSE box.min.x,
                        IF box.min.y < parent.bounds.min.y THEN parent.bounds.min.y ELSE box.min.y,
                        IF box.min.z < parent.bounds.min.z THEN parent.bounds.min.z ELSE box.min.z),
                    Vec(IF box.max.x > parent.bounds.max.x THEN parent.bounds.max.x ELSE box.max.x,
                        IF box.max.y > parent.bounds.max.y THEN parent.bounds.max.y ELSE box.max.y,
                        IF box.max.z > parent.bounds.max.z THEN parent.bounds.max.z ELSE box.max.z))
    IN  [ok |-> TRUE, err |-> "none", grid |-> GridInitSub(parent, clip)]

\* FVoxelGrid::GetSubGrid = FVoxelGrid(const FVoxelGrid&, const FBox&):
\* the checkf on containment, then Init(parent, box)
GetSubGrid(parent, box) ==
    IF ~BoxIsInsideOrOnBox(parent.bounds, box)
    THEN [ok |-> FALSE, err |-> "OutOfBounds", grid |-> NoGrid]
    ELSE [ok |-> TRUE, err |-> "none", grid |-> GridInitSub(parent, box)]

\* a default-constructed FVoxelData
NoStore == [grid |-> NoGrid, cells |-> [i \in 0..(0 - 1) |-> FALSE]]

----------------------------------------------------------------------------
(* FVoxelData *)

\* OccupancyData.Num()
Num(d) == Cardinality(DOMAIN d.cells)

\* FVoxelData(const FVoxelGrid&): the grid is copied, then Init(InVoxelGrid)
\* fills OccupancyData with GetVoxelCount() times false
VoxelData(g) == [grid |-> g, cells |-> [i \in 0..(GetVoxelCount(g) - 1) |-> FALSE]]

ApplyOpOverwrite(op, a, b) == b

\* the operator of And / Or / Xor applied to one pair of cells
ApplyOp(op, a, b) ==
    CASE op = "AND" -> a /\ b
      [] op = "OR"  -> a \/ b
      [] op = "XOR" -> a # b

CombineChecksNoSize(this, other) ==
    IF ~IsGridInside(this.grid, other.grid) THEN "OutOfBounds" ELSE "none"

\* the two checkf at the head of And / Or / Xor
CombineChecks(this, other) ==
    IF ~IsGridInside(this.grid, other.grid) THEN "OutOfBounds"
    ELSE IF ~(Num(this) >= Num(other)) THEN "SizeMismatch"
    ELSE "none"

\* And / Or / Xor, the branch taken when the other grid's Offset is set: cell i of
\* the other store is combined into the cell at Offset + GetVoxelCoordinate(i).
\* `aliased` says that the other store is this store (cells read are current).
\* GetVoxelIndex's checkf ends the loop at the first invalid coordinate.
RECURSIVE OffsetLoop(_, _, _, _, _, _)
OffsetLoop(op, thisGrid, cells, other, aliased, i) ==
    IF i >= Num(other)
    THEN [cells |-> cells, err |-> "none", oob |-> FALSE]
    ELSE LET c == VecAdd(other.grid.offset.v, GetVoxelCoordinate(other.grid, i)) IN
         IF ~IsVoxelIndexValid(other.grid, i)
         THEN [cells |-> cells, err |-> "InvalidIndex", oob |-> FALSE]
         ELSE IF ~IsVoxelCoordinateValid(thisGrid, c)
         THEN [cells |-> cells, err |-> "InvalidCoordinate", oob |-> FALSE]
         ELSE LET Index == GetVoxelIndex(thisGrid, c)
                  o == IF aliased THEN cells[i] ELSE other.cells[i]
              IN  IF Index \notin DOMAIN cells
                  THEN [cells |-> cells, err |-> "ArrayIndexOutOfBounds", oob |-> FALSE]
                  ELSE OffsetLoop(op, thisGrid,
                                  [cells EXCEPT ![Index] = ApplyOp(op, cells[Index], o)],
                                  other, aliased, i + 1)

\* And / Or / Xor, the branch taken when the other grid has no Offset: the loop
\* runs over this store's OccupancyData.Num() and reads InVoxelData.OccupancyData[i].
\* A read at i >= Num(other) is out of the other array's range: with TArray's
\* range check it ends the run (ub.crash), without it the read yields an
\* arbitrary value (ub.garbage[i]).
RECURSIVE PositionalLoop(_, _, _, _, _, _, _)
PositionalLoop(op, cells, other, aliased, ub, oob, i) ==
    IF i >= Cardinality(DOMAIN cells)
    THEN [cells |-> cells, err |-> "none", oob |-> oob]
    ELSE IF ~aliased /\ i >= Num(other)
    THEN IF ub.crash
         THEN [cells |-> cells, err |-> "ArrayIndexOutOfBounds", oob |-> TRUE]
         ELSE PositionalLoop(op,
                             [cells EXCEPT ![i] = ApplyOp(op, cells[i], ub.garbage[i])],
                             other, aliased, ub, TRUE, i + 1)
    ELSE LET o == IF aliased THEN cells[i] ELSE other.cells[i] IN
         PositionalLoop(op, [cells EXCEPT ![i] = ApplyOp(op, cells[i], o)],
                        other, aliased, ub, oob, i + 1)

\* the indices at which the positional loop reads past the other store's array
OverreadIndices(this, other) ==
    IF CombineChecks(this, other) # "none" \/ other.grid.offset.set
    THEN {}
    ELSE {i \in DOMAIN this.cells : i >= Num(other)}

\* the outcomes of the out-of-range reads of one call
UbOutcomes(this, other) ==
    IF OverreadIndices(this, other) = {}
    THEN {[crash |-> FALSE, garbage |-> <<>>]}
    ELSE {[crash |-> TRUE, garbage |-> [i \in OverreadIndices(this, other) |-> FALSE]]}
         \cup {[crash |-> FALSE, garbage |-> g] :
                 g \in [OverreadIndices(this, other) -> BOOLEAN]}

CombineAndClearsOutside(this, other, op, aliased, ub) ==
    LET e == CombineChecks(this, other) IN
    IF e # "none"
    THEN [cells |-> this.cells, err |-> e, oob |-> FALSE]
    ELSE IF other.grid.offset.set
    THEN LET r == OffsetLoop(op, this.grid, this.cells, other, aliased, 0)
             region == {GetVoxelIndex(this.grid,
                            VecAdd(other.grid.offset.v, GetVoxelCoordinate(other.grid, i))) :
                        i \in DOMAIN other.cells}
         IN  IF op = "AND"
             THEN [r EXCEPT !.cells = [i \in DOMAIN r.cells |-> r.cells[i] /\ i \in region]]
             ELSE r
    ELSE PositionalLoop(op, this.cells, other, aliased, ub, FALSE, 0)

\* FVoxelData::And / Or / Xor: this.op(other); the result holds this store's
\* cells after the call, the check that failed, and whether the other
\* store's array was read out of range
Combine(this, other, op, aliased, ub) ==
    LET e == CombineChecks(this, other) IN
    IF e # "none"
    THEN [cells |-> this.cells, err |-> e, oob |-> FALSE]
    ELSE IF other.grid.offset.set
    THEN OffsetLoop(op, this.grid, this.cells, other, aliased, 0)
    ELSE PositionalLoop(op, this.cells, other, aliased, ub, FALSE, 0)

----------------------------------------------------------------------------
(* SpecGrid: construction of a grid and its index/coordinate conversions *)

Sizes == {Vec(x, y, z) : x \in 1..MaxSize, y \in 1..MaxSize, z \in 1..MaxSize}

\* the intervals [a, b] with a <= b and both ends in lo..hi
Intervals(lo, hi) == {<<a, b>> \in (lo..hi) \X (lo..hi) : a <= b}

\* input boxes with Min <= Max; X reaches below zero
InputBoxes ==
    {Box(Vec(ix[1], iy[1], iz[1]), Vec(ix[2], iy[2], iz[2])) :
        ix \in Intervals(0 - 1, MaxCoord),
        iy \in Intervals(0, MaxCoord),
        iz \in Intervals(0, MaxCoord)}

NoQuery == [op |-> "none", c |-> ZeroVector, i |-> 0, c2 |-> ZeroVector, i2 |-> 0,
            err |-> "none"]

StoreIdle ==
    /\ G = NoStore /\ S = NoStore /\ err = "none" /\ nsets = 0
    /\ last = [op |-> "none"]

RasterIdle ==
    /\ pc = "Idle" /\ shape = [kind |-> "none"] /\ nshapes = 0
    /\ localBounds = Box(ZeroVector, ZeroVector) /\ cursor = 0
    /\ gCall = NoStore.cells /\ gShape = NoStore.cells /\ marked = {}

GridIdle ==
    /\ grid = NoGrid /\ inSize = ZeroVector
    /\ inBox = Box(ZeroVector, ZeroVector) /\ q = NoQuery

InitGrid == GridIdle /\ StoreIdle /\ RasterIdle

\* FVoxelGrid(InVoxelSize, InBounds): a grid is constructed once
Construct(size, box) ==
    /\ grid = NoGrid
    /\ grid' = GridInit(size, box)
    /\ inSize' = size
    /\ inBox' = box
    /\ q' = NoQuery
    /\ UNCHANGED <<storeVars, rasterVars>>

\* GetVoxelIndex(c), then GetVoxelCoordinate of the index it returned
IndexOfCoordinate(c) ==
    /\ grid # NoGrid
    /\ IF ~IsVoxelCoordinateValid(grid, c)
       THEN q' = [NoQuery EXCEPT !.op = "IndexOf", !.c = c, !.err = "InvalidCoordinate"]
       ELSE LET i == GetVoxelIndex(grid, c) IN
            IF ~IsVoxelIndexValid(grid, i)
            THEN q' = [NoQuery EXCEPT !.op = "IndexOf", !.c = c, !.i = i,
                                      !.err = "InvalidIndex"]
            ELSE q' = [NoQuery EXCEPT !.op = "IndexOf", !.c = c, !.i = i,
                                      !.c2 = GetVoxelCoordinate(grid, i)]
    /\ inSize' = ZeroVector
    /\ inBox' = Box(ZeroVector, ZeroVector)
    /\ UNCHANGED <<grid, storeVars, rasterVars>>

\* GetVoxelCoordinate(i), then GetVoxelIndex of the coordinate it returned
CoordinateOfIndex(i) ==
    /\ grid # NoGrid
    /\ IF ~IsVoxelIndexValid(grid, i)
       THEN q' = [NoQuery EXCEPT !.op = "CoordinateOf", !.i = i, !.err = "InvalidIndex"]
       ELSE LET c == GetVoxelCoordinate(grid, i) IN
            IF ~IsVoxelCoordinateValid(grid, c)
            THEN q' = [NoQuery EXCEPT !.op = "CoordinateOf", !.i = i, !.c = c,
                                      !.err = "InvalidCoordinate"]
            ELSE q' = [NoQuery EXCEPT !.op = "CoordinateOf", !.i = i, !.c = c,
                                      !.i2 = GetVoxelIndex(grid, c)]
    /\ inSize' = ZeroVector
    /\ inBox' = Box(ZeroVector, ZeroVector)
    /\ UNCHANGED <<grid, storeVars, rasterVars>>

NextGrid ==
    \/ grid = NoGrid /\ \E size \in Sizes, box \in InputBoxes : Construct(size, box)
    \/ \E x \in 0..grid.count.x, y \in 0..grid.count.y, z \in 0..grid.count.z :
            IndexOfCoordinate(Vec(x, y, z))
    \/ \E i \in (0 - 1)..GetVoxelCount(grid) : CoordinateOfIndex(i)

SpecGrid == InitGrid /\ [][NextGrid]_vars

----------------------------------------------------------------------------
(* Claims checked under SpecGrid *)

ValidCoordinates(g) ==
    {Vec(x, y, z) : x \in 0..(g.count.x - 1), y \in 0..(g.count.y - 1),
                    z \in 0..(g.count.z - 1)}

\* d comes before c when cells are enumerated with X varying fastest, then Y, then Z
Precedes(d, c) ==
    \/ d.z < c.z
    \/ d.z = c.z /\ d.y < c.y
    \/ d.z = c.z /\ d.y = c.y /\ d.x < c.x

\* m is the multiple of s reached by rounding v down
IsFloorMultiple(m, v, s) == m % s = 0 /\ m <= v /\ v < m + s
\* m is the multiple of s reached by rounding v up
IsCeilMultiple(m, v, s) == m % s = 0 /\ m - s < v /\ v <= m

\* C2: for every valid coordinate c, CoordinateOf(IndexOf(c)) = c and IndexOf(c) is
\* a valid index; for every valid index i, IndexOf(CoordinateOf(i)) = i and
\* CoordinateOf(i) is a valid coordinate: the conversions are mutually inverse.
C2_RoundTrip ==
    /\ (q.op = "IndexOf" /\ IsVoxelCoordinateValid(grid, q.c)) =>
            (q.err = "none" /\ IsVoxelIndexValid(grid, q.i) /\ q.c2 = q.c)
    /\ (q.op = "CoordinateOf" /\ IsVoxelIndexValid(grid, q.i)) =>
            (q.err = "none" /\ IsVoxelCoordinateValid(grid, q.c) /\ q.i2 = q.i)

\* C2's case: both round trips done on a grid whose X and Y counts differ
C2_Witness ==
    /\ q.op \in {"IndexOf", "CoordinateOf"} /\ q.err = "none"
    /\ grid.count.x # grid.count.y
    /\ q.c.x > 0 /\ q.c.y > 0 /\ q.c.z > 0

\* C3: IndexOf((x,y,z)) = x + y*cellCount.x + z*cellCount.x*cellCount.y for every
\* valid coordinate, i.e. the rank of the cell with X varying fastest; cellSize
\* (1,1,1) and bounds [(0,0,0),(2,2,2)] give cellCount (2,2,2), 8 cells and
\* IndexOf((1,1,1)) = 7.
C3_Linearization ==
    /\ (q.op = "IndexOf" /\ IsVoxelCoordinateValid(grid, q.c)) =>
            /\ q.i = q.c.x + q.c.y * grid.count.x + q.c.z * grid.count.x * grid.count.y
            /\ q.i = Cardinality({d \in ValidCoordinates(grid) : Precedes(d, q.c)})
    /\ (inSize = Vec(1, 1, 1) /\ inBox = Box(ZeroVector, Vec(2, 2, 2))) =>
            /\ grid.count = Vec(2, 2, 2)
            /\ Cardinality(ValidCoordinates(grid)) = 8
            /\ GetVoxelCount(grid) = 8
    /\ (/\ grid.size = Vec(1, 1, 1) /\ grid.bounds = Box(ZeroVector, Vec(2, 2, 2))
        /\ q.op = "IndexOf" /\ q.c = Vec(1, 1, 1)) =>
            (q.err = "none" /\ q.i = 7)

\* C3's case: IndexOf((1,1,1)) asked of the 2x2x2 unit grid
C3_Witness ==
    /\ grid.size = Vec(1, 1, 1) /\ grid.bounds = Box(ZeroVector, Vec(2, 2, 2))
    /\ q.op = "IndexOf" /\ q.c = Vec(1, 1, 1) /\ q.i = 7

\* C4: the grid built from (cellSize, box) has bounds.min = floor(box.min/size)*size
\* and bounds.max = ceil(box.max/size)*size on every axis (multiples of the cell size
\* that contain the box), and cellCount = (bounds.max - bounds.min)/cellSize.
C4_SnappedBounds ==
    (grid # NoGrid /\ inSize # ZeroVector) =>
        /\ grid.size = inSize
        /\ IsFloorMultiple(grid.bounds.min.x, inBox.min.x, inSize.x)
        /\ IsFloorMultiple(grid.bounds.min.y, inBox.min.y, inSize.y)
        /\ IsFloorMultiple(grid.bounds.min.z, inBox.min.z, inSize.z)
        /\ IsCeilMultiple(grid.bounds.max.x, inBox.max.x, inSize.x)
        /\ IsCeilMultiple(grid.bounds.max.y, inBox.max.y, inSize.y)
        /\ IsCeilMultiple(grid.bounds.max.z, inBox.max.z, inSize.z)
        /\ BoxIsInsideOrOnBox(grid.bounds, inBox)
        /\ grid.count.x * inSize.x = grid.bounds.max.x - grid.bounds.min.x
        /\ grid.count.y * inSize.y = grid.bounds.max.y - grid.bounds.min.y
        /\ grid.count.z * inSize.z = grid.bounds.max.z - grid.bounds.min.z

\* C4's case: a box whose negative minimum and whose maximum are no multiples of
\* the cell size has been snapped outward
C4_Witness ==
    /\ inSize.x = 2 /\ inBox.min.x = 0 - 1 /\ inBox.max.x = 1
    /\ grid.bounds.min.x = 0 - 2 /\ grid.bounds.max.x = 2 /\ grid.count.x = 2

----------------------------------------------------------------------------
(* SpecCombine: occupancy stores, sub-grid stores and And / Or / Xor *)

\* the (cell size, box) pairs the global grid is built from: the 2x2x2 unit
\* grid, a 3x1x1 row of unit cells, and two cells of size (2,1,1) around zero
GlobalInputs ==
    {[size |-> Vec(1, 1, 1), box |-> Box(ZeroVector, Vec(2, 2, 2))],
     [size |-> Vec(1, 1, 1), box |-> Box(ZeroVector, Vec(3, 1, 1))],
     [size |-> Vec(2, 1, 1), box |-> Box(Vec(0 - 1, 0, 0), Vec(1, 1, 1))]}

\* the (cell size, box) pairs another store's grid is built from directly
\* (no Offset): the global inputs, parts of them, and finer or coarser grids
RootInputs ==
    GlobalInputs \cup
    {[size |-> Vec(1, 1, 1), box |-> Box(ZeroVector, Vec(1, 2, 2))],
     [size |-> Vec(1, 1, 1), box |-> Box(Vec(1, 0, 0), Vec(3, 1, 1))],
     [size |-> Vec(1, 1, 1), box |-> Box(Vec(0 - 2, 0, 0), Vec(2, 1, 1))],
     [size |-> Vec(2, 2, 2), box |-> Box(ZeroVector, Vec(2, 2, 2))]}

\* the boxes a sub-grid of g is asked for: integer corners, Min < Max on Y and
\* Z, Min <= Max on X, reaching one unit beyond g's bounds on X
SubBoxes(g) ==
    {Box(Vec(ix[1], iy[1], iz[1]), Vec(ix[2], iy[2], iz[2])) :
        ix \in Intervals(g.bounds.min.x - 1, g.bounds.max.x + 1),
        iy \in {i \in Intervals(g.bounds.min.y, g.bounds.max.y) : i[1] < i[2]},
        iz \in {i \in Intervals(g.bounds.min.z, g.bounds.max.z) : i[1] < i[2]}}

NoOp == [op |-> "none", self |-> FALSE, target |-> "G", this |-> NoStore,
         other |-> NoStore, oob |-> FALSE]

\* a global store whose own grid is a sub-grid (it carries an Offset): the part
\* [(1,0,0),(3,2,1)] of the 3x2x1 unit grid
GlobalSubStore ==
    VoxelData(GetSubGrid(GridInit(Vec(1, 1, 1), Box(ZeroVector, Vec(3, 2, 1))),
                         Box(Vec(1, 0, 0), Vec(3, 2, 1))).grid)

InitCombine ==
    /\ GridIdle /\ RasterIdle
    /\ G \in {VoxelData(GridInit(in.size, in.box)) : in \in GlobalInputs}
            \cup {GlobalSubStore}
    /\ S = NoStore
    /\ err = "none"
    /\ last = NoOp
    /\ nsets = 0

\* A behaviour of SpecCombine is one scenario: cells of G are set, the other
\* store S is created (on a sub-grid of G's grid or on a grid of its own), cells
\* of S are set, and one And / Or / Xor is called, which ends the scenario.  A
\* failed checkf ends it as well.
Running == err = "none" /\ last.op = "none"

\* LocalVoxelData(G.grid.GetSubGrid(box))
MakeSubStore(box) ==
    /\ Running /\ S = NoStore
    /\ LET r == GetSubGrid(G.grid, box) IN
        /\ err' = r.err
        /\ S' = IF r.ok THEN VoxelData(r.grid) ELSE S
    /\ UNCHANGED <<G, last, nsets, gridVars, rasterVars>>

\* FVoxelData(FVoxelGrid(size, box)): a store on a grid without Offset
MakeRootStore(size, box) ==
    /\ Running /\ S = NoStore
    /\ S' = VoxelData(GridInit(size, box))
    /\ UNCHANGED <<G, err, last, nsets, gridVars, rasterVars>>

\* FVoxelData::SetOccupancy(const int32, const bool) on G (before S exists) or on S
SetOccupancy(target, i, v) ==
    /\ Running
    /\ nsets < MaxSets
    /\ (target = "G") = (S = NoStore)
    /\ nsets' = nsets + 1
    /\ LET d == IF target = "G" THEN G ELSE S IN
       IF ~IsVoxelIndexValid(d.grid, i)
       THEN err' = "InvalidIndex" /\ UNCHANGED <<G, S>>
       ELSE /\ err' = "none"
            /\ G' = IF target = "G" THEN [G EXCEPT !.cells[i] = v] ELSE G
            /\ S' = IF target = "S" THEN [S EXCEPT !.cells[i] = v] ELSE S
    /\ UNCHANGED <<last, gridVars, rasterVars>>

\* G.And(S) / G.Or(S) / G.Xor(S)
CombineInto(op, ub) ==
    /\ Running /\ S # NoStore
    /\ LET r == Combine(G, S, op, FALSE, ub) IN
        /\ G' = [G EXCEPT !.cells = r.cells]
        /\ err' = r.err
        /\ last' = [op |-> op, self |-> FALSE, target |-> "G", this |-> G,
                    other |-> S, oob |-> r.oob]
    /\ UNCHANGED <<S, nsets, gridVars, rasterVars>>

\* A.And(A) / A.Or(A) / A.Xor(A) for A = G or A = S: InVoxelData is *this
CombineSelf(target, op) ==
    /\ Running
    /\ (target = "G") = (S = NoStore)
    /\ LET A == IF target = "G" THEN G ELSE S
           r == Combine(A, A, op, TRUE, [crash |-> FALSE, garbage |-> <<>>])
       IN
        /\ G' = IF target = "G" THEN [G EXCEPT !.cells = r.cells] ELSE G
        /\ S' = IF target = "S" THEN [S EXCEPT !.cells = r.cells] ELSE S
        /\ err' = r.err
        /\ last' = [op |-> op, self |-> TRUE, target |-> target, this |-> A,
                    other |-> A, oob |-> r.oob]
    /\ UNCHANGED <<nsets, gridVars, rasterVars>>

Ops == {"AND", "OR", "XOR"}

NextCombine ==
    \/ Running /\ S = NoStore /\ \E box \in SubBoxes(G.grid) : MakeSubStore(box)
    \/ Running /\ S = NoStore /\ \E in \in RootInputs : MakeRootStore(in.size, in.box)
    \/ Running /\ \E target \in {"G", "S"} :
            \E i \in 0..Num(IF target = "G" THEN G ELSE S) : SetOccupancy(target, i, TRUE)
    \/ Running /\ S # NoStore /\ \E op \in Ops : \E ub \in UbOutcomes(G, S) :
            CombineInto(op, ub)
    \/ Running /\ \E target \in {"G", "S"}, op \in Ops : CombineSelf(target, op)

SpecCombine == InitCombine /\ [][NextCombine]_vars

----------------------------------------------------------------------------
(* Claims checked under SpecCombine *)

\* the store the last And / Or / Xor was called on, as it is now
Target == IF last.target = "G" THEN G ELSE S

UnitGrid2 == GridInit(Vec(1, 1, 1), Box(ZeroVector, Vec(2, 2, 2)))

\* C1: after G.Or(S), with S on a grid built as G.grid.GetSubGrid(box), the call
\* has not failed and every local coordinate c of S satisfies
\* G[offset + c] = (old G[offset + c] OR S[c]), where offset + c is the cell of G
\* with the same world bounds as cell c of S; on the 2x2x2 unit grid with box
\* [(1,0,0),(2,2,2)], local (0,0,0) true sets global (1,0,0) (index 1), not
\* (0,0,0) (index 0).
C1_SubGridOrMerge ==
    (last.op = "OR" /\ ~last.self /\ last.other.grid.offset.set) =>
        /\ err = "none"
        /\ \A c \in ValidCoordinates(last.other.grid) :
            LET gc == VecAdd(last.other.grid.offset.v, c)
                gi == gc.x + gc.y * G.grid.count.x + gc.z * G.grid.count.x * G.grid.count.y
                li == c.x + c.y * last.other.grid.count.x
                          + c.z * last.other.grid.count.x * last.other.grid.count.y
            IN  /\ IsVoxelCoordinateValid(G.grid, gc)
                /\ GetVoxelBounds(G.grid, gc) = GetVoxelBounds(last.other.grid, c)
                /\ G.cells[gi] = (last.this.cells[gi] \/ last.other.cells[li])
        /\ (/\ G.grid = UnitGrid2
            /\ last.other.grid.bounds = Box(Vec(1, 0, 0), Vec(2, 2, 2))
            /\ last.other.cells[0] /\ ~last.this.cells[0] /\ ~last.this.cells[1]) =>
                (G.cells[1] /\ ~G.cells[0])

\* C1's case: the sub-store of [(1,0,0),(2,2,2)] with local (0,0,0) set has been
\* merged into the all-false 2x2x2 unit store
C1_Witness ==
    /\ last.op = "OR" /\ ~last.self /\ err = "none"
    /\ G.grid = UnitGrid2
    /\ last.other.grid.offset = SomeOffset(Vec(1, 0, 0))
    /\ last.other.grid.bounds = Box(Vec(1, 0, 0), Vec(2, 2, 2))
    /\ last.other.cells[0]
    /\ \A i \in DOMAIN last.this.cells : ~last.this.cells[i]
    /\ G.cells[1] /\ ~G.cells[0]

\* C5: for every store A, A.Or(A) and A.And(A) leave A unchanged and A.Xor(A)
\* leaves every cell of A false.
C5_SelfCombine ==
    last.self =>
        /\ last.op \in {"OR", "AND"} => Target.cells = last.this.cells
        /\ last.op = "XOR" => \A i \in DOMAIN Target.cells : ~Target.cells[i]

\* C9: And / Or / Xor fails with OutOfBounds when the other grid is not inside this
\* grid, with SizeMismatch when (it is inside and) the other store has more cells,
\* and a call that fails with either leaves every cell of this store as it was.
C9_CombinePreconditions ==
    (last.op \in Ops /\ ~last.self) =>
        LET inside == BoxIsInsideOrOnBox(last.this.grid.bounds, last.other.grid.bounds)
            more   == Num(last.other) > Num(last.this)
        IN  /\ ~inside => err = "OutOfBounds"
            /\ (inside /\ more) => err = "SizeMismatch"
            /\ err = "OutOfBounds" => ~inside
            /\ err = "SizeMismatch" => more
            /\ err \in {"OutOfBounds", "SizeMismatch"} => G.cells = last.this.cells

\* C9's case: a store with more cells, inside this grid's bounds, was refused, after
\* a cell of this store had been set
C9_Witness ==
    /\ last.op \in Ops /\ ~last.self /\ err = "SizeMismatch"
    /\ BoxIsInsideOrOnBox(last.this.grid.bounds, last.other.grid.bounds)
    /\ \E i \in DOMAIN G.cells : G.cells[i]

\* C10: with an other store whose grid has no offset, And / Or / Xor never reads
\* the other store's cells at an index >= its length, fails with SizeMismatch
\* when the other store (inside this grid) has fewer cells than this one, and
\* when it succeeds the stores have equal length and this[i] = old this[i] op
\* other[i] for every index i.
C10_PositionalEqualLength ==
    (last.op \in Ops /\ ~last.self /\ ~last.other.grid.offset.set) =>
        /\ ~last.oob
        /\ (/\ BoxIsInsideOrOnBox(last.this.grid.bounds, last.other.grid.bounds)
            /\ Num(last.other) < Num(last.this)) => err = "SizeMismatch"
        /\ err = "none" =>
            /\ Num(last.other) = Num(last.this)
            /\ \A i \in DOMAIN G.cells :
                G.cells[i] = ApplyOp(last.op, last.this.cells[i], last.other.cells[i])

----------------------------------------------------------------------------
(* FOOBBoxProxy: oriented boxes, containment of corners and the SAT test *)

\* Directions are integer vectors in units of 1 / RDen, so that the axes of a
\* rotation with rational entries (a 3-4-5 rotation) are exact.
RDen == 5

\* KINDA_SMALL_NUMBER is 1 / EpsDen
EpsDen == 10000

Dot(a, b) == a.x * b.x + a.y * b.y + a.z * b.z
VecSub(a, b) == Vec(a.x - b.x, a.y - b.y, a.z - b.z)
VecScale(a, k) == Vec(a.x * k, a.y * k, a.z * k)
Abs(v) == IF v < 0 THEN 0 - v ELSE v

\* component i (0, 1, 2) of a vector: FVector::operator[]
Comp(v, i) == IF i = 0 THEN v.x ELSE IF i = 1 THEN v.y ELSE v.z

\* Orientation.GetAxisX / GetAxisY / GetAxisZ of the rotations used, times RDen
IdentityAxes == [i \in 0..2 |-> IF i = 0 THEN Vec(RDen, 0, 0)
                                ELSE IF i = 1 THEN Vec(0, RDen, 0) ELSE Vec(0, 0, RDen)]
\* a quarter turn about Z
QuarterTurnZAxes == [i \in 0..2 |-> IF i = 0 THEN Vec(0, RDen, 0)
                                    ELSE IF i = 1 THEN Vec(0 - RDen, 0, 0)
                                    ELSE Vec(0, 0, RDen)]
\* the rotation about Z with cosine 4/5 and sine 3/5
Turn345ZAxes == [i \in 0..2 |-> IF i = 0 THEN Vec(4, 3, 0)
                                ELSE IF i = 1 THEN Vec(0 - 3, 4, 0) ELSE Vec(0, 0, RDen)]

\* an FOOBBoxProxy: Center, Extents (half sizes) and the axes of Orientation
OBB(center, extents, axes) == [center |-> center, extents |-> extents, axes |-> axes]

\* FOOBBoxProxy(const FBox&, FTransform::Identity, ...): centre and extent of the box
OBBOfBox(b) ==
    OBB(Vec((b.min.x + b.max.x) \div 2, (b.min.y + b.max.y) \div 2,
            (b.min.z + b.max.z) \div 2),
        Vec((b.max.x - b.min.x) \div 2, (b.max.y - b.min.y) \div 2,
            (b.max.z - b.min.z) \div 2),
        IdentityAxes)

\* FOOBBoxProxy::GetCorners, in units of 1 / RDen: Center +- HalfSizeX +- HalfSizeY
\* +- HalfSizeZ
GetCorners(o) ==
    {[x |-> o.center.x * RDen + sx * o.axes[0].x * o.extents.x
                + sy * o.axes[1].x * o.extents.y + sz * o.axes[2].x * o.extents.z,
      y |-> o.center.y * RDen + sx * o.axes[0].y * o.extents.x
                + sy * o.axes[1].y * o.extents.y + sz * o.axes[2].y * o.extents.z,
      z |-> o.center.z * RDen + sx * o.axes[0].z * o.extents.x
                + sy * o.axes[1].z * o.extents.y + sz * o.axes[2].z * o.extents.z] :
        sx \in {1, 0 - 1}, sy \in {1, 0 - 1}, sz \in {1, 0 - 1}}

\* FOOBBoxProxy::IsInsideOrOn(const FVector&) for a point given in units of
\* 1 / RDen: the point unrotated into the box's frame lies within the extents
OBBIsInsideOrOnPoint(o, p5) ==
    \A i \in 0..2 :
        Abs(Dot(VecSub(p5, VecScale(o.center, RDen)), o.axes[i]))
            <= Comp(o.extents, i) * RDen * RDen

\* FOOBBoxProxy::IsInsideOrOn(const FOOBBoxProxy&): the loop returns true at the
\* first corner of Other that is inside or on this box, false when none is
OBBIsInsideOrOn(o, other) ==
    \E corner \in GetCorners(other) : OBBIsInsideOrOnPoint(o, corner)

\* R[i][j] = DotProduct(AxesA[i], AxesB[j]), in units of 1 / RDen^2
SatR(a, b, i, j) == Dot(a.axes[i], b.axes[j])

\* AbsR[i][j] = Abs(R[i][j]) + KINDA_SMALL_NUMBER, in units of 1 / (RDen^2 * EpsDen)
SatAbsR(a, b, i, j) == Abs(SatR(a, b, i, j)) * EpsDen + RDen * RDen

\* TA[i] = DotProduct(Other.Center - Center, AxesA[i]), in units of 1 / RDen
SatTA(a, b, i) == Dot(VecSub(b.center, a.center), a.axes[i])

\* the test of axis L = A_i: Abs(TA[i]) > RA + RB
SatSeparatedA(a, b, i) ==
    Abs(SatTA(a, b, i)) * RDen * EpsDen
        > Comp(a.extents, i) * RDen * RDen * EpsDen
          + b.extents.x * SatAbsR(a, b, i, 0) + b.extents.y * SatAbsR(a, b, i, 1)
          + b.extents.z * SatAbsR(a, b, i, 2)

\* the test of axis L = B_i
SatSeparatedB(a, b, i) ==
    Abs(SatTA(a, b, 0) * SatR(a, b, 0, i) + SatTA(a, b, 1) * SatR(a, b, 1, i)
        + SatTA(a, b, 2) * SatR(a, b, 2, i)) * (EpsDen \div RDen)
        > a.extents.x * SatAbsR(a, b, 0, i) + a.extents.y * SatAbsR(a, b, 1, i)
          + a.extents.z * SatAbsR(a, b, 2, i)
          + Comp(b.extents, i) * RDen * RDen * EpsDen

\* the test of axis L = A0 x B0 written out before the loop
SatSeparatedA0B0(a, b) ==
    Abs(SatTA(a, b, 2) * SatR(a, b, 1, 0) - SatTA(a, b, 1) * SatR(a, b, 2, 0))
        * (EpsDen \div RDen)
        > a.extents.y * SatAbsR(a, b, 2, 0) + a.extents.z * SatAbsR(a, b, 1, 0)
          + b.extents.y * SatAbsR(a, b, 0, 2) + b.extents.z * SatAbsR(a, b, 0, 1)

\* the loop's test of axis L = A_I x B_N, TestCases row {I, J, M, N} with
\* M = (I + 2) % 3: RA = Extents[M] * AbsR[(I+1)%3][N]
\*                     + Extents[(I+2)%3] * AbsR[(I+2)%3][N]
SatSeparatedCross(a, b, I, N) ==
    Abs(SatTA(a, b, (I + 2) % 3) * SatR(a, b, (I + 1) % 3, N)
        - SatTA(a, b, (I + 1) % 3) * SatR(a, b, (I + 2) % 3, N)) * (EpsDen \div RDen)
        > Comp(a.extents, (I + 2) % 3) * SatAbsR(a, b, (I + 1) % 3, N)
          + Comp(a.extents, (I + 2) % 3) * SatAbsR(a, b, (I + 2) % 3, N)
          + Comp(b.extents, (N + 1) % 3) * SatAbsR(a, b, I, (N + 2) % 3)
          + Comp(b.extents, (N + 2) % 3) * SatAbsR(a, b, I, (N + 1) % 3)

\* FOOBBoxProxy::Intersect(const FOOBBoxProxy&): false at the first axis that
\* separates, true when none of the 15 (16 tests) does
OBBIntersect(a, b) ==
    /\ \A i \in 0..2 : ~SatSeparatedA(a, b, i)
    /\ \A i \in 0..2 : ~SatSeparatedB(a, b, i)
    /\ ~SatSeparatedA0B0(a, b)
    /\ \A I \in 0..2, N \in 0..2 : ~SatSeparatedCross(a, b, I, N)

----------------------------------------------------------------------------
(* SpecRaster: FVoxelator::VoxelateActor / VoxelateNavigableGeometry *)

\* the global store of a call: 2x2x2 cells of 10 world units each
RasterGrid == GridInit(Vec(10, 10, 10), Box(ZeroVector, Vec(20, 20, 20)))

Sphere(c, r) == [kind |-> "sphere", center |-> c, radius |-> r, extents |-> ZeroVector]
NoShape == [kind |-> "none", center |-> ZeroVector, radius |-> 0, extents |-> ZeroVector]

\* a component whose body is one box element spanning b, with an identity transform
AxisBox(b) ==
    [kind |-> "box", center |-> OBBOfBox(b).center, radius |-> 0,
     extents |-> OBBOfBox(b).extents]

\* FOOBBoxProxy(BoxElement, InstanceTransform, true) of such a component
BoxProxy(sh) == OBB(sh.center, sh.extents, IdentityAxes)

\* the components a call meets: spheres inside one cell, across cells, touching
\* the faces of the global bounds, and reaching beyond them; boxes that span
\* whole cells and a box inside one cell
Shapes ==
    {Sphere(Vec(5, 5, 5), 4), Sphere(Vec(15, 5, 5), 4), Sphere(Vec(15, 15, 15), 4),
     Sphere(Vec(10, 15, 15), 4), Sphere(Vec(6, 6, 6), 6), Sphere(Vec(14, 14, 14), 6),
     Sphere(Vec(16, 16, 16), 6),
     AxisBox(Box(ZeroVector, Vec(20, 10, 10))),
     AxisBox(Box(Vec(10, 10, 0), Vec(20, 20, 20))),
     AxisBox(Box(Vec(2, 12, 12), Vec(8, 18, 16)))}

ShapeBoundsWholeGrid(sh) == RasterGrid.bounds

\* Component->Bounds.GetBox() / GetNavigationBounds() of a sphere component and
\* of a box component
ShapeBounds(sh) ==
    IF sh.kind = "box"
    THEN Box(VecSub(sh.center, sh.extents),
             Vec(sh.center.x + sh.extents.x, sh.center.y + sh.extents.y,
                 sh.center.z + sh.extents.z))
    ELSE Box(Vec(sh.center.x - sh.radius, sh.center.y - sh.radius,
                 sh.center.z - sh.radius),
             Vec(sh.center.x + sh.radius, sh.center.y + sh.radius,
                 sh.center.z + sh.radius))

\* one axis of FMath::SphereAABBIntersection: squared distance of c to [lo, hi]
AxisDistSquared(c, lo, hi) ==
    IF c < lo THEN (c - lo) * (c - lo)
    ELSE IF c > hi THEN (c - hi) * (c - hi)
    ELSE 0

SphereAABBIntersectionNoZ(center, radiusSquared, box) ==
    AxisDistSquared(center.x, box.min.x, box.max.x)
    + AxisDistSquared(center.y, box.min.y, box.max.y) <= radiusSquared

\* FMath::SphereAABBIntersection(SphereCenter, FMath::Square(SphereRadius), VoxelBounds)
SphereAABBIntersection(center, radiusSquared, box) ==
    AxisDistSquared(center.x, box.min.x, box.max.x)
    + AxisDistSquared(center.y, box.min.y, box.max.y)
    + AxisDistSquared(center.z, box.min.z, box.max.z) <= radiusSquared

\* the predicate ProcessPrimitiveComponent applies to a cell's bounds:
\* ProcessCollisionSphere's, and ProcessCollisionBox's
\* VoxelBoundsProxy.IsInsideOrOn(BoxProxy) || VoxelBoundsProxy.Intersect(BoxProxy)
ShapeIntersects(sh, box) ==
    IF sh.kind = "box"
    THEN \/ OBBIsInsideOrOn(OBBOfBox(box), BoxProxy(sh))
         \/ OBBIntersect(OBBOfBox(box), BoxProxy(sh))
    ELSE sh.kind = "sphere"
         /\ SphereAABBIntersection(sh.center, sh.radius * sh.radius, box)

LoopIterationsNoZ(g) == g.count.x * g.count.y

\* number of iterations of the Y / X / Z loops of a Process* function
LoopIterations(g) == g.count.y * g.count.x * g.count.z

\* the coordinate visited by iteration k: Y is the outer, X the middle, Z the inner loop
LoopCoordinate(g, k) ==
    Vec((k \div g.count.z) % g.count.x, k \div (g.count.z * g.count.x), k % g.count.z)

MergeOpAnd == "AND"

\* the operation that applies the local store to the output store
MergeOp == "OR"

\* the global cells sharing their world bounds with a true cell of local store d
WorldMarked(g, d) ==
    {gc \in ValidCoordinates(g) :
        \E c \in ValidCoordinates(d.grid) :
            /\ d.cells[c.x + c.y * d.grid.count.x + c.z * d.grid.count.x * d.grid.count.y]
            /\ GetVoxelBounds(g, gc) = GetVoxelBounds(d.grid, c)}

\* the contents the output store may have when the call starts
PresetCells ==
    {f \in [0..(GetVoxelCount(RasterGrid) - 1) -> BOOLEAN] :
        Cardinality({i \in DOMAIN f : f[i]}) <= MaxPreset}

InitRaster ==
    /\ GridIdle
    /\ \E f \in PresetCells : G = [grid |-> RasterGrid, cells |-> f]
    /\ S = NoStore /\ err = "none" /\ last = NoOp /\ nsets = 0
    /\ pc = "LoopHead" /\ shape = NoShape /\ nshapes = 0
    /\ localBounds = Box(ZeroVector, ZeroVector) /\ cursor = 0
    /\ gCall = G.cells /\ gShape = G.cells /\ marked = {}

\* for(const auto Component : PrimitiveComponents): the next component is taken
NextComponent(sh) ==
    /\ pc = "LoopHead" /\ nshapes < MaxShapes
    /\ shape' = sh
    /\ nshapes' = nshapes + 1
    /\ gShape' = G.cells
    /\ S' = NoStore /\ grid' = NoGrid /\ cursor' = 0
    /\ localBounds' = Box(ZeroVector, ZeroVector)
    /\ pc' = "ComputeLocalBounds"
    /\ UNCHANGED <<G, err, last, nsets, inSize, inBox, q, gCall, marked>>

\* the component loop ends; the debug boxes drawn afterwards change no state
EndCall ==
    /\ pc = "LoopHead"
    /\ pc' = "Done"
    /\ UNCHANGED <<gridVars, storeVars, shape, nshapes, localBounds, cursor, gCall,
                   gShape, marked>>

\* Component->Bounds.GetBox()
ComputeLocalBounds ==
    /\ pc = "ComputeLocalBounds"
    /\ localBounds' = ShapeBounds(shape)
    /\ pc' = "BuildSubGrid"
    /\ UNCHANGED <<gridVars, storeVars, shape, nshapes, cursor, gCall, gShape, marked>>

\* LocalVoxelGrid = InVoxelGrid.GetSubGrid(bounds); its checkf ends the call
BuildSubGrid ==
    /\ pc = "BuildSubGrid"
    /\ LET r == GetSubGrid(G.grid, localBounds) IN
        /\ grid' = r.grid
        /\ err' = r.err
        /\ pc' = IF r.ok THEN "AllocateLocalStore" ELSE "Failed"
    /\ UNCHANGED <<G, S, last, nsets, inSize, inBox, q, shape, nshapes, localBounds,
                   cursor, gCall, gShape, marked>>

\* FVoxelData LocalVoxelData(LocalVoxelGrid)
AllocateLocalStore ==
    /\ pc = "AllocateLocalStore"
    /\ S' = VoxelData(grid)
    /\ cursor' = 0
    /\ pc' = "RasterizeCells"
    /\ UNCHANGED <<gridVars, G, err, last, nsets, shape, nshapes, localBounds, gCall,
                   gShape, marked>>

\* one iteration of the loops of ProcessCollisionSphere: skip an occupied cell,
\* else test the cell's bounds and set its occupancy on a hit
RasterizeCell ==
    /\ pc = "RasterizeCells" /\ cursor < LoopIterations(S.grid)
    /\ LET c == LoopCoordinate(S.grid, cursor)
           Index == GetVoxelIndex(S.grid, c)
       IN  S' = IF ~S.cells[Index] /\ ShapeIntersects(shape, GetVoxelBounds(S.grid, c))
                THEN [S EXCEPT !.cells[Index] = TRUE]
                ELSE S
    /\ cursor' = cursor + 1
    /\ UNCHANGED <<gridVars, G, err, last, nsets, pc, shape, nshapes, localBounds,
                   gCall, gShape, marked>>

\* the loops are exhausted: ProcessPrimitiveComponent returns
RasterizeDone ==
    /\ pc = "RasterizeCells" /\ cursor >= LoopIterations(S.grid)
    /\ pc' = "MergeIntoGlobal"
    /\ UNCHANGED <<gridVars, storeVars, shape, nshapes, localBounds, cursor, gCall,
                   gShape, marked>>

\* OutVoxelData.Or(LocalVoxelData)
MergeIntoGlobal ==
    /\ pc = "MergeIntoGlobal"
    /\ LET r == Combine(G, S, MergeOp, FALSE, [crash |-> TRUE, garbage |-> <<>>]) IN
        /\ G' = [G EXCEPT !.cells = r.cells]
        /\ err' = r.err
        /\ pc' = IF r.err = "none" THEN "LoopHead" ELSE "Failed"
        /\ marked' = IF r.err = "none" THEN marked \cup WorldMarked(G.grid, S) ELSE marked
    /\ UNCHANGED <<gridVars, S, last, nsets, shape, nshapes, localBounds, cursor, gCall,
                   gShape>>

NextRaster ==
    \/ pc = "LoopHead" /\ \E sh \in Shapes : NextComponent(sh)
    \/ EndCall
    \/ ComputeLocalBounds
    \/ BuildSubGrid
    \/ AllocateLocalStore
    \/ RasterizeCell
    \/ RasterizeDone
    \/ MergeIntoGlobal

SpecRaster == InitRaster /\ [][NextRaster]_vars

----------------------------------------------------------------------------
(* Claims checked under SpecRaster *)

\* a global cell is true iff it was true when the call started or a merged local
\* store had the cell with the same world bounds true
C6_Union ==
    \A gc \in ValidCoordinates(G.grid) :
        LET gi == gc.x + gc.y * G.grid.count.x + gc.z * G.grid.count.x * G.grid.count.y
        IN  G.cells[gi] = (gCall[gi] \/ gc \in marked)

\* no global cell changes from true to false in a step
C6_Monotone == \A i \in DOMAIN G.cells : G.cells[i] => G'.cells[i]

\* C6: after the rasterizer has processed any sequence of shapes, a global cell is
\* true iff it was true before the call or a processed shape's local store had the
\* corresponding cell true, and no step of the call turns a true global cell false.
C6_UnionMerge == [](C6_Union) /\ [][C6_Monotone]_vars

\* C6's case: two shapes have been merged into a store that held a cell before,
\* and one of the merged cells is another cell than that one
C6_Witness ==
    /\ pc = "Done" /\ nshapes = 2
    /\ Cardinality(marked) >= 2
    /\ \E i \in DOMAIN gCall : gCall[i]
    /\ \E i \in DOMAIN G.cells : G.cells[i] /\ ~gCall[i]

\* the steps of one shape, in order; BuildSubGrid and MergeIntoGlobal may fail
StepOrder ==
    {<<"LoopHead", "ComputeLocalBounds">>, <<"ComputeLocalBounds", "BuildSubGrid">>,
     <<"BuildSubGrid", "AllocateLocalStore">>, <<"BuildSubGrid", "Failed">>,
     <<"AllocateLocalStore", "RasterizeCells">>,
     <<"RasterizeCells", "MergeIntoGlobal">>,
     <<"MergeIntoGlobal", "LoopHead">>, <<"MergeIntoGlobal", "Failed">>,
     <<"LoopHead", "Done">>}

\* the local store holds, for every cell of the local grid, the result of the
\* shape's test of that cell's bounds
AllCellsTested ==
    /\ cursor = GetVoxelCount(S.grid)
    /\ \A c \in ValidCoordinates(S.grid) :
        S.cells[c.x + c.y * S.grid.count.x + c.z * S.grid.count.x * S.grid.count.y]
            = ShapeIntersects(shape, GetVoxelBounds(S.grid, c))

C7_Step ==
    /\ pc' # pc => <<pc, pc'>> \in StepOrder
    /\ G' # G => (pc = "MergeIntoGlobal" /\ pc' = "LoopHead")
    /\ pc = "RasterizeCells" => G' = G

C7_State ==
    /\ pc = "MergeIntoGlobal" => AllCellsTested
    /\ pc = "Failed" => G.cells = gShape
    /\ pc \in {"ComputeLocalBounds", "BuildSubGrid", "AllocateLocalStore",
               "RasterizeCells", "MergeIntoGlobal"} => G.cells = gShape

\* C7: per shape the steps run in the order ComputeLocalBounds, BuildSubGrid,
\* AllocateLocalStore, RasterizeCells, MergeIntoGlobal; the global store is not
\* modified while cells are rasterized and changes only in the merge step, which
\* runs after every cell of the local grid has been tested; when a step before
\* the merge fails, the global store holds what it held when the shape was started.
C7_StepOrder == [](C7_State) /\ [][C7_Step]_vars

\* C7's case: a second shape is half rasterized after the first one changed the
\* global store
C7_Witness ==
    /\ pc = "RasterizeCells" /\ nshapes = 2
    /\ cursor > 0 /\ cursor < GetVoxelCount(S.grid)
    /\ \E i \in DOMAIN S.cells : S.cells[i]
    /\ G.cells # gCall

\* C8: GetSubGrid fails with OutOfBounds and yields no grid whenever the box is not
\* contained (faces included) in the parent grid's bounds, so BuildSubGrid ends the
\* call for a shape whose bounds reach beyond the global grid: no local grid or
\* store exists and the global store is untouched; a shape inside the bounds
\* gets a grid that contains its whole bounds.
C8_SubGridOutOfBounds ==
    pc \in {"AllocateLocalStore", "RasterizeCells", "MergeIntoGlobal", "Failed"} =>
        IF /\ localBounds.min.x >= G.grid.bounds.min.x
           /\ localBounds.min.y >= G.grid.bounds.min.y
           /\ localBounds.min.z >= G.grid.bounds.min.z
           /\ localBounds.max.x <= G.grid.bounds.max.x
           /\ localBounds.max.y <= G.grid.bounds.max.y
           /\ localBounds.max.z <= G.grid.bounds.max.z
        THEN /\ pc # "Failed" /\ err = "none"
             /\ grid # NoGrid
             /\ BoxIsInsideOrOnBox(grid.bounds, localBounds)
        ELSE /\ pc = "Failed" /\ err = "OutOfBounds"
             /\ grid = NoGrid /\ S = NoStore
             /\ G.cells = gShape

\* C8's case: the second shape of a call reaches beyond the global bounds and
\* BuildSubGrid has failed, after the first shape was merged
C8_Witness ==
    /\ pc = "Failed" /\ err = "OutOfBounds" /\ nshapes = 2
    /\ ~BoxIsInsideOrOnBox(G.grid.bounds, localBounds)
    /\ marked # {}

----------------------------------------------------------------------------
(* SpecConstruct: FVoxelGrid(InVoxelSize, InBounds) called with any cell size *)

\* the cell sizes a caller can pass: components below, at and above zero
AnySizes ==
    {Vec(x, y, z) : x \in (0 - 1)..MaxSize, y \in (0 - 1)..MaxSize, z \in (0 - 1)..MaxSize}

\* the values FMath::CeilToInt can return for a quotient that is not a number
\* (the conversion of a NaN to an integer is undefined)
IndeterminateInts == {0 - 1, 0, 1}

\* the indeterminate counts of one call: one value per axis whose cell size is
\* zero, zero for the axes that compute their count
IndeterminateCounts(size) ==
    {Vec(x, y, z) : x \in IF size.x = 0 THEN IndeterminateInts ELSE {0},
                    y \in IF size.y = 0 THEN IndeterminateInts ELSE {0},
                    z \in IF size.z = 0 THEN IndeterminateInts ELSE {0}}

\* one axis of FVoxelGrid::Init: a non-zero cell size divides, floors / ceils and
\* multiplies as for any size; a zero cell size divides by zero, the products
\* with zero are not numbers ("NaN"), and the count is indeterminate (ub)
InitAxis(lo, hi, size, ub) ==
    IF size = 0
    THEN [min |-> "NaN", max |-> "NaN", count |-> ub]
    ELSE LET mn == FloorDiv(lo, size) * size
             mx == CeilDiv(hi, size) * size
         IN  [min |-> mn, max |-> mx, count |-> CeilDiv(mx - mn, size)]

\* FVoxelGrid::Init(const FVector&, const FBox&) for any cell size: the function
\* has no check of InVoxelSize and assigns all four members
GridInitAny(size, box, ub) ==
    LET X == InitAxis(box.min.x, box.max.x, size.x, ub.x)
        Y == InitAxis(box.min.y, box.max.y, size.y, ub.y)
        Z == InitAxis(box.min.z, box.max.z, size.z, ub.z)
    IN  [size   |-> size,
         bounds |-> Box(Vec(X.min, Y.min, Z.min), Vec(X.max, Y.max, Z.max)),
         count  |-> Vec(X.count, Y.count, Z.count),
         offset |-> NoOffset]

InitConstruct == GridIdle /\ StoreIdle /\ RasterIdle

\* FVoxelGrid(InVoxelSize, InBounds) with an unchecked InVoxelSize
ConstructAny(size, box, ub) ==
    /\ q.op = "none"
    /\ grid' = GridInitAny(size, box, ub)
    /\ inSize' = size
    /\ inBox' = box
    /\ q' = [NoQuery EXCEPT !.op = "Construct"]
    /\ UNCHANGED <<storeVars, rasterVars>>

NextConstruct ==
    q.op = "none" /\ \E size \in AnySizes, box \in InputBoxes :
        \E ub \in IndeterminateCounts(size) : ConstructAny(size, box, ub)

SpecConstruct == InitConstruct /\ [][NextConstruct]_vars

----------------------------------------------------------------------------
(* Claims checked under SpecConstruct *)

\* C11: a construction with a cell size that has a component <= 0 fails with
\* InvalidArgument, and no grid with a non-positive cell size is ever produced.
C11_InvalidArgument ==
    /\ (q.op = "Construct" /\ (inSize.x <= 0 \/ inSize.y <= 0 \/ inSize.z <= 0)) =>
            (err = "InvalidArgument" /\ grid = NoGrid)
    /\ grid # NoGrid => (grid.size.x > 0 /\ grid.size.y > 0 /\ grid.size.z > 0)

----------------------------------------------------------------------------
(* SpecAccess: FVoxelData::GetOccupancy / SetOccupancy by index, coordinate, location *)

\* FVoxelGrid::GetVoxelIndex(const FVector&), past its checkf: the floored local
\* location, linearized with the counts recomputed from the bounds
GetVoxelIndexLoc(g, p) ==
    LET X == FloorDiv(p.x - g.bounds.min.x, g.size.x)
        Y == FloorDiv(p.y - g.bounds.min.y, g.size.y)
        Z == FloorDiv(p.z - g.bounds.min.z, g.size.z)
        CX == CeilDiv(g.bounds.max.x - g.bounds.min.x, g.size.x)
        CY == CeilDiv(g.bounds.max.y - g.bounds.min.y, g.size.y)
    IN  X + Y * CX + Z * CX * CY

\* the store that is accessed: 2x2x1 cells of size 2 on [(0,0,0),(4,4,2)]
AccessGrid == GridInit(Vec(2, 2, 2), Box(ZeroVector, Vec(4, 4, 2)))

ByIndex(i) == [kind |-> "index", i |-> i, c |-> ZeroVector, p |-> ZeroVector]
ByCoordinate(c) == [kind |-> "coordinate", i |-> 0, c |-> c, p |-> ZeroVector]
ByLocation(p) == [kind |-> "location", i |-> 0, c |-> ZeroVector, p |-> p]

\* the arguments of the three overloads: indices and coordinates one beyond the
\* valid range on both sides, locations one unit beyond the bounds on both sides
Addresses(g) ==
    {ByIndex(i) : i \in (0 - 1)..GetVoxelCount(g)}
    \cup {ByCoordinate(Vec(x, y, z)) :
            x \in (0 - 1)..g.count.x, y \in (0 - 1)..g.count.y, z \in (0 - 1)..g.count.z}
    \cup {ByLocation(Vec(x, y, z)) :
            x \in (g.bounds.min.x - 1)..(g.bounds.max.x + 1),
            y \in (g.bounds.min.y - 1)..(g.bounds.max.y + 1),
            z \in (g.bounds.min.z - 1)..(g.bounds.max.z + 1)}

\* the checkf of an overload and the index its argument resolves to
ResolveAddress(g, a) ==
    CASE a.kind = "index" ->
            IF ~IsVoxelIndexValid(g, a.i) THEN [err |-> "InvalidIndex", index |-> 0]
            ELSE [err |-> "none", index |-> a.i]
      [] a.kind = "coordinate" ->
            IF ~IsVoxelCoordinateValid(g, a.c) THEN [err |-> "InvalidCoordinate", index |-> 0]
            ELSE [err |-> "none", index |-> GetVoxelIndex(g, a.c)]
      [] a.kind = "location" ->
            IF ~IsLocationInBounds(g, a.p) THEN [err |-> "OutOfBounds", index |-> 0]
            ELSE [err |-> "none", index |-> GetVoxelIndexLoc(g, a.p)]

\* FVoxelData::GetOccupancy: the coordinate and location overloads end in
\* GetOccupancy(const int32), whose checkf refuses an invalid index
GetOccupancyAt(d, a) ==
    LET r == ResolveAddress(d.grid, a) IN
    IF r.err # "none" THEN [err |-> r.err, value |-> FALSE]
    ELSE IF ~IsVoxelIndexValid(d.grid, r.index) THEN [err |-> "InvalidIndex", value |-> FALSE]
    ELSE [err |-> "none", value |-> d.cells[r.index]]

\* FVoxelData::SetOccupancy: OccupancyData[index] = bOccupied with the index the
\* argument resolves to.  An index outside the array is a write out of the array's
\* range: TArray's range check ends the run (crash), without it the write lands
\* outside the cells and the call returns.
SetOccupancyAt(d, a, v, crash) ==
    LET r == ResolveAddress(d.grid, a) IN
    IF r.err # "none" THEN [cells |-> d.cells, err |-> r.err]
    ELSE IF r.index \notin DOMAIN d.cells
    THEN [cells |-> d.cells, err |-> IF crash THEN "ArrayIndexOutOfBounds" ELSE "none"]
    ELSE [cells |-> [d.cells EXCEPT ![r.index] = v], err |-> "none"]

\* whether SetOccupancy with this argument writes out of the array's range
WritesOutOfRange(d, a) ==
    LET r == ResolveAddress(d.grid, a) IN r.err = "none" /\ r.index \notin DOMAIN d.cells

RECURSIVE OccupiedLoopDown(_, _, _)
OccupiedLoopDown(cells, i, Result) ==
    IF i < 0 THEN Result
    ELSE OccupiedLoopDown(cells, i - 1, IF cells[i] THEN Append(Result, i) ELSE Result)

GetOccupiedIndicesDescending(d) == OccupiedLoopDown(d.cells, Num(d) - 1, <<>>)

\* the loop of GetOccupiedIndices from index i on: Result.Add(i) for a true cell
RECURSIVE OccupiedLoop(_, _, _)
OccupiedLoop(cells, i, Result) ==
    IF i >= Cardinality(DOMAIN cells) THEN Result
    ELSE OccupiedLoop(cells, i + 1, IF cells[i] THEN Append(Result, i) ELSE Result)

\* FVoxelData::GetOccupiedIndices
GetOccupiedIndices(d) == OccupiedLoop(d.cells, 0, <<>>)

NoAccess == [op |-> "none", a |-> ByIndex(0), v |-> FALSE, this |-> NoStore,
             err |-> "none", getErr |-> "none", got |-> FALSE, indices |-> <<>>]

InitAccess ==
    /\ GridIdle /\ RasterIdle
    /\ G = VoxelData(AccessGrid)
    /\ S = NoStore /\ err = "none" /\ nsets = 0
    /\ last = NoAccess

\* GetOccupancy(a)
AccessGet(a) ==
    /\ err = "none" /\ nsets < MaxSets
    /\ LET r == GetOccupancyAt(G, a) IN
        /\ err' = r.err
        /\ last' = [NoAccess EXCEPT !.op = "Get", !.a = a, !.this = G, !.err = r.err,
                                    !.getErr = r.err, !.got = r.value]
    /\ nsets' = nsets + 1
    /\ UNCHANGED <<G, S, gridVars, rasterVars>>

\* SetOccupancy(a, v), followed when it returned by GetOccupancy(a)
AccessSet(a, v, crash) ==
    /\ err = "none" /\ nsets < MaxSets
    /\ LET w == SetOccupancyAt(G, a, v, crash)
           r == IF w.err = "none"
                THEN GetOccupancyAt([G EXCEPT !.cells = w.cells], a)
                ELSE [err |-> "none", value |-> FALSE]
       IN
        /\ G' = [G EXCEPT !.cells = w.cells]
        /\ err' = IF w.err # "none" THEN w.err ELSE r.err
        /\ last' = [NoAccess EXCEPT !.op = "Set", !.a = a, !.v = v, !.this = G,
                                    !.err = w.err, !.getErr = r.err, !.got = r.value]
    /\ nsets' = nsets + 1
    /\ UNCHANGED <<S, gridVars, rasterVars>>

\* GetOccupiedIndices() on the store (a const member function)
AccessOccupied ==
    /\ err = "none"
    /\ last' = [NoAccess EXCEPT !.op = "OccupiedIndices", !.this = G,
                                !.indices = GetOccupiedIndices(G)]
    /\ UNCHANGED <<G, S, err, nsets, gridVars, rasterVars>>

NextAccess ==
    \/ AccessOccupied
    \/ err = "none" /\ nsets < MaxSets /\ \E a \in Addresses(G.grid) : AccessGet(a)
    \/ err = "none" /\ nsets < MaxSets /\ \E a \in Addresses(G.grid), v \in BOOLEAN :
            \E crash \in IF WritesOutOfRange(G, a) THEN BOOLEAN ELSE {FALSE} :
                AccessSet(a, v, crash)

SpecAccess == InitAccess /\ [][NextAccess]_vars

----------------------------------------------------------------------------
(* Claims checked under SpecAccess *)

\* the argument is out of range for its overload
AddressOutOfRange(g, a) ==
    \/ a.kind = "index" /\ ~(a.i >= 0 /\ a.i < g.count.x * g.count.y * g.count.z)
    \/ a.kind = "coordinate" /\ a.c \notin ValidCoordinates(g)
    \/ a.kind = "location" /\ ~BoxIsInsideOrOn(g.bounds, a.p)

\* cell k is the cell the argument addresses: the index itself, the rank of the
\* coordinate, or a cell whose bounds contain the location
Addressed(g, a, k) ==
    \/ a.kind = "index" /\ k = a.i
    \/ a.kind = "coordinate"
        /\ k = a.c.x + a.c.y * g.count.x + a.c.z * g.count.x * g.count.y
    \/ a.kind = "location"
        /\ \E c \in ValidCoordinates(g) :
            /\ k = c.x + c.y * g.count.x + c.z * g.count.x * g.count.y
            /\ BoxIsInsideOrOn(GetVoxelBounds(g, c), a.p)

\* C12: Get and Set fail with InvalidIndex / InvalidCoordinate / OutOfBounds for
\* every index, coordinate or location out of range; a Set that fails changes no
\* cell; a Set(k, v) that succeeds changes only the cell k addresses, to v, and
\* the following Get(k) returns v.
C12_GetSet ==
    last.op \in {"Get", "Set"} =>
        /\ AddressOutOfRange(G.grid, last.a) =>
                last.err = (CASE last.a.kind = "index" -> "InvalidIndex"
                              [] last.a.kind = "coordinate" -> "InvalidCoordinate"
                              [] last.a.kind = "location" -> "OutOfBounds")
        /\ (last.op = "Set" /\ last.err # "none") => G.cells = last.this.cells
        /\ (last.op = "Set" /\ last.err = "none") =>
                /\ \E k \in DOMAIN G.cells :
                    /\ Addressed(G.grid, last.a, k)
                    /\ G.cells = [last.this.cells EXCEPT ![k] = last.v]
                /\ last.getErr = "none" /\ last.got = last.v

\* C13: GetOccupiedIndices returns exactly the indices i with cells[i] true, each
\* once and in strictly ascending order, and leaves the store as it was.
C13_OccupiedIndices ==
    last.op = "OccupiedIndices" =>
        /\ {last.indices[k] : k \in 1..Len(last.indices)}
                = {i \in DOMAIN G.cells : G.cells[i]}
        /\ \A k \in 1..(Len(last.indices) - 1) : last.indices[k] < last.indices[k + 1]
        /\ G = last.this

\* C13's case: the indices of a store with two true cells, the first cell false
C13_Witness ==
    /\ last.op = "OccupiedIndices" /\ Len(last.indices) = 2
    /\ ~G.cells[0] /\ last.indices[1] > 0

----------------------------------------------------------------------------
(* SpecBounds: FVoxelGrid::GetVoxelIndicesFromBounds / GetVoxelCoordinatesFromBounds *)

\* the offset FIntVector(X, Y, Z) added in iteration k (from 0) of the Z / Y / X
\* loops, Z the outer and X the inner loop
BoundsLoopOffset(k, NumVoxelsX, NumVoxelsY) ==
    Vec(k % NumVoxelsX, (k \div NumVoxelsX) % NumVoxelsY, k \div (NumVoxelsX * NumVoxelsY))

GetVoxelIndicesFromBoundsLocalStride(g, box) ==
    LET mn == SnapMin(box, g.size)
        mx == SnapMax(box, g.size)
        NumVoxelsX == CeilDiv(mx.x - mn.x, g.size.x)
        NumVoxelsY == CeilDiv(mx.y - mn.y, g.size.y)
        NumVoxelsZ == CeilDiv(mx.z - mn.z, g.size.z)
    IN  IF ~IsLocationInBounds(g, mn) THEN [err |-> "OutOfBounds", result |-> <<>>]
        ELSE LET IndexMin == GetVoxelIndexLoc(g, mn)
                 Result == [k \in 1..(NumVoxelsX * NumVoxelsY * NumVoxelsZ) |->
                              LET o == BoundsLoopOffset(k - 1, NumVoxelsX, NumVoxelsY)
                              IN  IndexMin + o.x + o.y * NumVoxelsX
                                           + o.z * NumVoxelsX * NumVoxelsY]
             IN  IF \E k \in DOMAIN Result : ~IsVoxelIndexValid(g, Result[k])
                 THEN [err |-> "InvalidIndex", result |-> <<>>]
                 ELSE [err |-> "none", result |-> Result]

\* FVoxelGrid::GetVoxelIndicesFromBounds: the box is snapped as in Init, IndexMin
\* is GetVoxelIndex of the snapped minimum (its checkf refuses a location out of
\* bounds), and each loop iteration adds IndexMin + X + Y * VoxelCount.X +
\* Z * VoxelCount.X * VoxelCount.Y past a checkf on the index
GetVoxelIndicesFromBounds(g, box) ==
    LET mn == SnapMin(box, g.size)
        mx == SnapMax(box, g.size)
        NumVoxelsX == CeilDiv(mx.x - mn.x, g.size.x)
        NumVoxelsY == CeilDiv(mx.y - mn.y, g.size.y)
        NumVoxelsZ == CeilDiv(mx.z - mn.z, g.size.z)
    IN  IF ~IsLocationInBounds(g, mn) THEN [err |-> "OutOfBounds", result |-> <<>>]
        ELSE LET IndexMin == GetVoxelIndexLoc(g, mn)
                 Result == [k \in 1..(NumVoxelsX * NumVoxelsY * NumVoxelsZ) |->
                              LET o == BoundsLoopOffset(k - 1, NumVoxelsX, NumVoxelsY)
                              IN  IndexMin + o.x + o.y * g.count.x
                                           + o.z * g.count.x * g.count.y]
             IN  IF \E k \in DOMAIN Result : ~IsVoxelIndexValid(g, Result[k])
                 THEN [err |-> "InvalidIndex", result |-> <<>>]
                 ELSE [err |-> "none", result |-> Result]

\* FVoxelGrid::GetVoxelCoordinatesFromBounds: CoordinateMin is GetVoxelCoordinate of
\* the snapped minimum, each iteration adds CoordinateMin + FIntVector(X, Y, Z);
\* no coordinate is checked
GetVoxelCoordinatesFromBounds(g, box) ==
    LET mn == SnapMin(box, g.size)
        mx == SnapMax(box, g.size)
        NumVoxelsX == CeilDiv(mx.x - mn.x, g.size.x)
        NumVoxelsY == CeilDiv(mx.y - mn.y, g.size.y)
        NumVoxelsZ == CeilDiv(mx.z - mn.z, g.size.z)
    IN  IF ~IsLocationInBounds(g, mn) THEN [err |-> "OutOfBounds", result |-> <<>>]
        ELSE LET CoordinateMin == GetVoxelCoordinateLoc(g, mn) IN
             [err |-> "none",
              result |-> [k \in 1..(NumVoxelsX * NumVoxelsY * NumVoxelsZ) |->
                            VecAdd(CoordinateMin,
                                   BoundsLoopOffset(k - 1, NumVoxelsX, NumVoxelsY))]]

\* the boxes asked for: integer corners with Min <= Max on every axis, on X
\* reaching one unit beyond the grid's bounds
QueryBoxes(g) ==
    {Box(Vec(ix[1], iy[1], iz[1]), Vec(ix[2], iy[2], iz[2])) :
        ix \in Intervals(g.bounds.min.x - 1, g.bounds.max.x + 1),
        iy \in Intervals(g.bounds.min.y, g.bounds.max.y),
        iz \in Intervals(g.bounds.min.z, g.bounds.max.z)}

InitBounds ==
    /\ StoreIdle /\ RasterIdle
    /\ grid \in {GridInit(in.size, in.box) : in \in RootInputs}
    /\ inSize = ZeroVector /\ inBox = Box(ZeroVector, ZeroVector)
    /\ q = NoQuery

\* GetVoxelIndicesFromBounds(box), then GetVoxelCoordinatesFromBounds(box)
InBounds(box) ==
    /\ q.op = "none"
    /\ LET I == GetVoxelIndicesFromBounds(grid, box)
           C == IF I.err = "none" THEN GetVoxelCoordinatesFromBounds(grid, box)
                ELSE [err |-> "none", result |-> <<>>]
       IN  q' = [op |-> "InBounds", box |-> box, indices |-> I.result,
                 coords |-> C.result,
                 err |-> IF I.err # "none" THEN I.err ELSE C.err]
    /\ UNCHANGED <<grid, inSize, inBox, storeVars, rasterVars>>

NextBounds == q.op = "none" /\ \E box \in QueryBoxes(grid) : InBounds(box)

SpecBounds == InitBounds /\ [][NextBounds]_vars

----------------------------------------------------------------------------
(* Claims checked under SpecBounds *)

\* boxes a and b share a volume (touching faces do not count)
BoxesOverlap(a, b) ==
    /\ a.min.x < b.max.x /\ b.min.x < a.max.x
    /\ a.min.y < b.max.y /\ b.min.y < a.max.y
    /\ a.min.z < b.max.z /\ b.min.z < a.max.z

\* C14: for a box inside the grid's bounds, the indices returned are those of
\* exactly the cells whose extent overlaps the box snapped outward to multiples of
\* the cell size, each once and each a valid index, and the coordinates returned
\* are those of the same cells in the same order.
C14_InBounds ==
    (q.op = "InBounds" /\ BoxIsInsideOrOnBox(grid.bounds, q.box)) =>
        LET snapped == Box(SnapMin(q.box, grid.size), SnapMax(q.box, grid.size)) IN
        /\ q.err = "none"
        /\ {q.indices[k] : k \in 1..Len(q.indices)}
                = {c.x + c.y * grid.count.x + c.z * grid.count.x * grid.count.y :
                     c \in {d \in ValidCoordinates(grid) :
                              BoxesOverlap(GetVoxelBounds(grid, d), snapped)}}
        /\ Cardinality({q.indices[k] : k \in 1..Len(q.indices)}) = Len(q.indices)
        /\ \A k \in 1..Len(q.indices) :
                q.indices[k] >= 0
                /\ q.indices[k] < grid.count.x * grid.count.y * grid.count.z
        /\ Len(q.coords) = Len(q.indices)
        /\ \A k \in 1..Len(q.coords) :
                /\ q.coords[k] \in ValidCoordinates(grid)
                /\ q.coords[k].x + q.coords[k].y * grid.count.x
                    + q.coords[k].z * grid.count.x * grid.count.y = q.indices[k]

\* C14's case: the part [(1,0,0),(2,2,1)] of the 2x2x2 unit grid, cells 1 and 3
C14_Witness ==
    /\ q.op = "InBounds" /\ q.err = "none"
    /\ grid = UnitGrid2
    /\ q.box = Box(Vec(1, 0, 0), Vec(2, 2, 1))
    /\ q.indices = <<1, 3>>
    /\ q.coords = <<Vec(1, 0, 0), Vec(1, 1, 0)>>

----------------------------------------------------------------------------
(* Claims about shapes, checked under SpecRaster *)

\* v moved into [lo, hi]
Clamp(v, lo, hi) == IF v < lo THEN lo ELSE IF v > hi THEN hi ELSE v

\* squared distance from point p to the nearest point of box b
ClampedDistSquared(p, b) ==
    (p.x - Clamp(p.x, b.min.x, b.max.x)) * (p.x - Clamp(p.x, b.min.x, b.max.x))
    + (p.y - Clamp(p.y, b.min.y, b.max.y)) * (p.y - Clamp(p.y, b.min.y, b.max.y))
    + (p.z - Clamp(p.z, b.min.z, b.max.z)) * (p.z - Clamp(p.z, b.min.z, b.max.z))

\* the first shape of a call on an all-false store has been merged
FirstSphereMerged ==
    /\ pc \in {"LoopHead", "Done"} /\ nshapes = 1 /\ shape.kind = "sphere"
    /\ S # NoStore
    /\ \A i \in DOMAIN gCall : ~gCall[i]

\* C15: after a sphere has been rasterized into an all-false global store, the
\* true cells are exactly the cells of the sphere's local sub-grid whose world box
\* is within squared distance radius^2 of the centre; on the 2x2x2 grid (world
\* units scaled by 10: cell size 10 on [0,20]^3) the sphere of radius 4 at
\* (5,5,5) leaves exactly cell (0,0,0), index 0, occupied.
C15_SphereRaster ==
    FirstSphereMerged =>
        /\ \A gc \in ValidCoordinates(G.grid) :
            G.cells[gc.x + gc.y * G.grid.count.x + gc.z * G.grid.count.x * G.grid.count.y]
            = (/\ BoxIsInsideOrOnBox(S.grid.bounds, GetVoxelBounds(G.grid, gc))
               /\ ClampedDistSquared(shape.center, GetVoxelBounds(G.grid, gc))
                    <= shape.radius * shape.radius)
        /\ shape = Sphere(Vec(5, 5, 5), 4) =>
                {i \in DOMAIN G.cells : G.cells[i]} = {0}

\* C15's case: the sphere of radius 4 at (5,5,5) has been merged into the
\* all-false store and cell (0,0,0) is the only one occupied
C15_Witness ==
    /\ FirstSphereMerged
    /\ shape = Sphere(Vec(5, 5, 5), 4)
    /\ G.grid = RasterGrid
    /\ G.cells[0] /\ \A i \in 1..7 : ~G.cells[i]

\* the box of end-to-end scenario 3, [(0,0,0),(2,1,1)] in cells of the unit grid
ScenarioBox == AxisBox(Box(ZeroVector, Vec(20, 10, 10)))

\* the first shape of a call on an all-false store was a box and has been merged
FirstBoxMerged ==
    /\ pc \in {"LoopHead", "Done"} /\ nshapes = 1 /\ shape.kind = "box"
    /\ S # NoStore
    /\ \A i \in DOMAIN gCall : ~gCall[i]

\* C16: after an axis-aligned box has been rasterized into an all-false global
\* store, no cell outside the box's local sub-grid is occupied; for the box
\* spanning [(0,0,0),(2,1,1)] of the 2x2x2 unit grid (world units scaled by 10)
\* cells (0,0,0) and (1,0,0) are occupied and no cell with Y = 1 and no cell
\* with Z = 1 is, although these cells share a face with the box.
C16_BoxRaster ==
    FirstBoxMerged =>
        /\ \A gc \in ValidCoordinates(G.grid) :
            G.cells[GetVoxelIndex(G.grid, gc)]
                => BoxIsInsideOrOnBox(S.grid.bounds, GetVoxelBounds(G.grid, gc))
        /\ shape = ScenarioBox =>
            /\ G.cells[GetVoxelIndex(G.grid, [x |-> 0, y |-> 0, z |-> 0])]
            /\ G.cells[GetVoxelIndex(G.grid, [x |-> 1, y |-> 0, z |-> 0])]
            /\ \A gc \in ValidCoordinates(G.grid) :
                (gc.y = 1 \/ gc.z = 1) => ~G.cells[GetVoxelIndex(G.grid, gc)]

\* C16's case: the scenario's box has been merged into the all-false store, cells
\* (0,0,0) and (1,0,0) are occupied, and the unoccupied cell (0,1,0) touches the
\* box: the SAT test of its bounds against the box finds no separating axis
C16_Witness ==
    /\ FirstBoxMerged
    /\ shape = ScenarioBox
    /\ G.grid = RasterGrid
    /\ G.cells[0] /\ G.cells[1] /\ ~G.cells[2]
    /\ OBBIntersect(OBBOfBox(GetVoxelBounds(G.grid, [x |-> 0, y |-> 1, z |-> 0])),
                    BoxProxy(shape))

----------------------------------------------------------------------------
(* SpecProxy: the intersection predicates of the shape proxies *)

\* coordinates of the predicates' arguments range over 0 .. MaxProxy
MaxProxy == 3

\* a capsule's segment is a point or runs along an axis for up to MaxSegment
MaxSegment == 2

SphereIntersectsUnsquared(center, radius, box) ==
    SphereAABBIntersection(center, radius, box)

\* FSphereProxy::Intersects(const FBox&)
SphereIntersects(center, radius, box) ==
    SphereAABBIntersection(center, radius * radius, box)

\* FBox::IsInsideOrOn(const FVector&) for the point num / den, den > 0
BoxIsInsideOrOnScaled(box, num, den) ==
    /\ den * box.min.x <= num.x /\ num.x <= den * box.max.x
    /\ den * box.min.y <= num.y /\ num.y <= den * box.max.y
    /\ den * box.min.z <= num.z /\ num.z <= den * box.max.z

\* a * sqrt(n) <= b for integers a, b and n >= 0
LeSqrt(a, n, b) ==
    IF a <= 0 /\ b >= 0 THEN TRUE
    ELSE IF a > 0 /\ b < 0 THEN FALSE
    ELSE IF a > 0 THEN a * a * n <= b * b
    ELSE a * a * n >= b * b

\* FPointLineProjection::ProjectPointToLineSegment(LineStart, LineEnd, Point) for
\* the point point2 / 2: the projected point is num / den.  A segment of zero
\* length returns the default-constructed result, the zero vector with relation 0
ProjectPointToLineSegment(LineStart, LineEnd, point2) ==
    LET PointOffset2 == VecSub(point2, VecScale(LineStart, 2))
        Edge == VecSub(LineEnd, LineStart)
        LineLength == Dot(Edge, Edge)
        Dot2 == Dot(PointOffset2, Edge)
    IN  IF LineLength = 0
        THEN [RelationToSegment |-> 0, num |-> ZeroVector, den |-> 2]
        ELSE IF Dot2 < 0
        THEN [RelationToSegment |-> 0 - 1, num |-> VecScale(LineStart, 2 * LineLength),
              den |-> 2 * LineLength]
        ELSE IF Dot2 > 2 * LineLength
        THEN [RelationToSegment |-> 1, num |-> VecScale(LineEnd, 2 * LineLength),
              den |-> 2 * LineLength]
        ELSE [RelationToSegment |-> 0,
              num |-> Vec(LineStart.x * 2 * LineLength + Dot2 * Edge.x,
                          LineStart.y * 2 * LineLength + Dot2 * Edge.y,
                          LineStart.z * 2 * LineLength + Dot2 * Edge.z),
              den |-> 2 * LineLength]

\* Other.IsInsideOrOn(ProjectedPoint + NormalisedProjection * Radius), where
\* NormalisedProjection = (Other.GetCenter() - ProjectedPoint).GetSafeNormal() is
\* d / |d| for d = den * (centre - projected point), and the zero vector for d = 0
OffsetPointInside(box, proj, radius) ==
    LET c2 == Vec(box.min.x + box.max.x, box.min.y + box.max.y, box.min.z + box.max.z)
        d == VecSub(VecScale(c2, proj.den \div 2), proj.num)
        n == Dot(d, d)
    IN  IF n = 0
        THEN BoxIsInsideOrOnScaled(box, proj.num, proj.den)
        ELSE \A i \in 0..2 :
                /\ LeSqrt(proj.den * Comp(box.min, i) - Comp(proj.num, i), n,
                          Comp(d, i) * radius * proj.den)
                /\ LeSqrt(Comp(proj.num, i) - proj.den * Comp(box.max, i), n,
                          0 - Comp(d, i) * radius * proj.den)

CapsuleIntersectsEndsOnly(Start, End, Radius, Other) ==
    SphereAABBIntersection(Start, Radius * Radius, Other)

\* FCapsuleProxy::Intersects(const FBox&)
CapsuleIntersects(Start, End, Radius, Other) ==
    LET Projection ==
            ProjectPointToLineSegment(Start, End,
                Vec(Other.min.x + Other.max.x, Other.min.y + Other.max.y,
                    Other.min.z + Other.max.z))
    IN  IF Projection.RelationToSegment < 0
        THEN SphereAABBIntersection(Start, Radius * Radius, Other)
        ELSE IF Projection.RelationToSegment > 0
        THEN SphereAABBIntersection(End, Radius * Radius, Other)
        ELSE OffsetPointInside(Other, Projection, Radius)

\* the points, radii and boxes the predicates are called with
ProxyPoints ==
    {Vec(x, y, z) : x \in 0..MaxProxy, y \in 0..MaxProxy, z \in 0..MaxProxy}
ProxyRadii == 0..2
ProxyBoxes ==
    {Box(Vec(1, 1, 1), Vec(2, 2, 2)), Box(Vec(0, 0, 0), Vec(1, 1, 1)),
     Box(Vec(1, 0, 1), Vec(3, 1, 2))}

\* the segments of the capsules: a point, or along one axis
ProxySegments ==
    {<<p, p>> : p \in ProxyPoints}
    \cup {<<p, e>> \in ProxyPoints \X ProxyPoints :
            \E k \in 1..MaxSegment :
                e \in {Vec(p.x + k, p.y, p.z), Vec(p.x, p.y + k, p.z),
                       Vec(p.x, p.y, p.z + k), Vec(p.x - k, p.y, p.z)}}

\* the oriented boxes: A about the origin, B around it
ProxyExtents == {Vec(1, 1, 1), Vec(1, 1, MaxProxy), Vec(2, 1, 1)}
ProxyAxes == {IdentityAxes, QuarterTurnZAxes, Turn345ZAxes}
ProxyBoxesA == {OBB(ZeroVector, e, a) : e \in ProxyExtents, a \in ProxyAxes}
ProxyBoxesB ==
    {OBB(Vec(x, y, z), e, a) :
        x \in {0 - MaxProxy, 0, MaxProxy}, y \in {0, 2}, z \in {0, MaxProxy},
        e \in ProxyExtents, a \in ProxyAxes}

\* no call has been made
InitProxy == GridIdle /\ StoreIdle /\ RasterIdle

\* Sphere.Intersects(box)
CallSphereIntersects(c, r, box) ==
    /\ q.op = "none"
    /\ q' = [op |-> "SphereIntersects", center |-> c, radius |-> r, box |-> box,
             result |-> SphereIntersects(c, r, box)]
    /\ UNCHANGED <<grid, inSize, inBox, G, S, err, last, nsets>>
    /\ UNCHANGED rasterVars

\* Capsule(start, end, r).Intersects(box)
CallCapsuleIntersects(seg, r, box) ==
    /\ q.op = "none"
    /\ q' = [op |-> "CapsuleIntersects", start |-> seg[1], end |-> seg[2],
             radius |-> r, box |-> box,
             result |-> CapsuleIntersects(seg[1], seg[2], r, box)]
    /\ UNCHANGED <<grid, inSize, inBox, G, S, err, last, nsets>>
    /\ UNCHANGED rasterVars

\* A.Intersect(B)
CallIntersect(a, b) ==
    /\ q.op = "none"
    /\ q' = [op |-> "Intersect", this |-> a, other |-> b,
             result |-> OBBIntersect(a, b)]
    /\ UNCHANGED <<grid, inSize, inBox, G, S, err, last, nsets>>
    /\ UNCHANGED rasterVars

\* the call with the two boxes of the previous call exchanged: B.Intersect(A)
CallIntersectExchanged ==
    /\ q.op = "Intersect" /\ last.op = "none"
    /\ last' = [op |-> "Intersect", this |-> q.other, other |-> q.this,
                result |-> OBBIntersect(q.other, q.this)]
    /\ UNCHANGED <<grid, inSize, inBox, G, S, err, q, nsets>>
    /\ UNCHANGED rasterVars

\* A.IsInsideOrOn(B), the test ProcessCollisionBox makes before A.Intersect(B)
CallIsInsideOrOn(a, b) ==
    /\ q.op = "none"
    /\ q' = [op |-> "IsInsideOrOn", this |-> a, other |-> b,
             result |-> OBBIsInsideOrOn(a, b)]
    /\ UNCHANGED <<grid, inSize, inBox, G, S, err, last, nsets>>
    /\ UNCHANGED rasterVars

NextProxy ==
    \/ \E c \in ProxyPoints, r \in ProxyRadii, box \in ProxyBoxes :
        CallSphereIntersects(c, r, box)
    \/ \E seg \in ProxySegments, r \in ProxyRadii, box \in ProxyBoxes :
        CallCapsuleIntersects(seg, r, box)
    \/ \E a \in ProxyBoxesA, b \in ProxyBoxesB : CallIntersect(a, b)
    \/ \E a \in ProxyBoxesA, b \in ProxyBoxesB : CallIsInsideOrOn(a, b)
    \/ CallIntersectExchanged

SpecProxy == InitProxy /\ [][NextProxy]_vars

----------------------------------------------------------------------------
(* Claims checked under SpecProxy *)

\* the centre lies beyond a face of the box, along its normal, by more than r
BeyondFace(c, r, box) ==
    \E i \in 0..2 :
        \/ Comp(c, i) > Comp(box.max, i) + r
        \/ Comp(c, i) < Comp(box.min, i) - r

IsCorner(c, box) ==
    \A i \in 0..2 : Comp(c, i) \in {Comp(box.min, i), Comp(box.max, i)}

\* C17: Sphere.Intersects(box) is true exactly when the squared distance from the
\* centre to the box (the centre clamped to the box per axis) is at most the
\* squared radius; so a sphere centred at a corner of the box intersects it, and
\* one centred more than its radius beyond a face does not.
C17_SphereIntersects ==
    q.op = "SphereIntersects" =>
        /\ q.result = (ClampedDistSquared(q.center, q.box) <= q.radius * q.radius)
        /\ IsCorner(q.center, q.box) => q.result
        /\ BeyondFace(q.center, q.radius, q.box) => ~q.result

\* C17's case: a sphere of radius 2 whose closest point of the box is an edge at
\* squared distance 2 intersects, and the call was made
C17_Witness ==
    /\ q.op = "SphereIntersects"
    /\ q.radius = 2
    /\ ClampedDistSquared(q.center, q.box) = 2
    /\ q.result

\* C18: the oriented-box test gives the same answer whichever of the two boxes
\* it is called on: A.Intersect(B) = B.Intersect(A).
C18_IntersectSymmetric ==
    (q.op = "Intersect" /\ last.op = "Intersect") => q.result = last.result

\* C19: a capsule whose segment has zero length answers as the sphere of its
\* radius about its point does, for every box and wherever the point lies.
C19_ZeroLengthCapsule ==
    (q.op = "CapsuleIntersects" /\ q.start = q.end) =>
        q.result = SphereAABBIntersection(q.start, q.radius * q.radius, q.box)

----------------------------------------------------------------------------
(* SpecLandscape: VoxelateActor on landscape height-field components *)

\* the height of a uint16 sample, in units of 1/128 of Size.Z:
\* FMath::Lerp(-256.0, 255.992, HeightValue / 65535) is (HeightValue - 32768) / 128
\* to within 1e-5
LandscapeHeight128(HeightValue, SizeZ) == (HeightValue - 32768) * SizeZ

\* a ULandscapeHeightfieldCollisionComponent: CollisionSizeQuads, the location
\* and scale of its transform, and CollisionHeightData, (quads + 1)^2 samples
Landscape(quads, location, scale, data) ==
    [kind |-> "landscape", quads |-> quads, location |-> location, scale |-> scale,
     data |-> data]

\* CollisionHeights[X + Y * (ComponentSize + 1)], in units of 1/128
CollisionHeight128(sh, X, Y) ==
    LandscapeHeight128(sh.data[X + Y * (sh.quads + 1)], sh.scale.z)

\* the samples 32768 + 128 * h of a surface at height h, one row after the other
FlatData(quads, h) == [i \in 0..((quads + 1) * (quads + 1) - 1) |-> 32768 + 128 * h]
SlopeData(quads, h, dh) ==
    [i \in 0..((quads + 1) * (quads + 1) - 1) |-> 32768 + 128 * (h + dh * (i % (quads + 1)))]

\* the landscapes a call meets: flat ones inside the lower and the upper layer of
\* cells, and a slope that crosses both
Landscapes ==
    {Landscape(qd, loc, Vec(10, 10, 1), data) :
        qd \in 1..2,
        loc \in {ZeroVector, Vec(10, 0, 0), Vec(0, 10, 0)},
        data \in {FlatData(2, 5), FlatData(2, 15), SlopeData(2, 5, 5),
                  FlatData(1, 5), FlatData(1, 15), SlopeData(1, 5, 10)}}

SampleHeights(sh) ==
    {CollisionHeight128(sh, X, Y) \div 128 : X \in 0..sh.quads, Y \in 0..sh.quads}

Minimum(set) == CHOOSE m \in set : \A n \in set : m <= n
Maximum(set) == CHOOSE m \in set : \A n \in set : m >= n

\* Component->Bounds.GetBox() of a landscape component: its quads in X and Y, its
\* lowest and highest sample in Z
LandscapeBounds(sh) ==
    Box(Vec(sh.location.x, sh.location.y, sh.location.z + Minimum(SampleHeights(sh))),
        Vec(sh.location.x + sh.quads * sh.scale.x, sh.location.y + sh.quads * sh.scale.y,
            sh.location.z + Maximum(SampleHeights(sh))))

\* number of iterations of the last Y / X loops of ProcessLandscape
LandscapeLoopIterations(g) == g.count.y * g.count.x

\* the next component of the call is a landscape
NextLandscape(sh) ==
    /\ Cardinality(DOMAIN sh.data) = (sh.quads + 1) * (sh.quads + 1)
    /\ NextComponent(sh)

\* Component->Bounds.GetBox() of the landscape component
ComputeLandscapeBounds ==
    /\ pc = "ComputeLocalBounds" /\ shape.kind = "landscape"
    /\ localBounds' = LandscapeBounds(shape)
    /\ pc' = "BuildSubGrid"
    /\ UNCHANGED <<gridVars, storeVars, shape, nshapes, cursor, gCall, gShape, marked>>

\* one iteration of the Y / X loops over LocalGridSize that end ProcessLandscape:
\* the body is empty.  The loops before it compute CollisionHeights, sample
\* positions and voxel bounds into locals that nothing reads
ProcessLandscapeColumn ==
    /\ pc = "RasterizeCells" /\ shape.kind = "landscape"
    /\ cursor < LandscapeLoopIterations(S.grid)
    /\ cursor' = cursor + 1
    /\ UNCHANGED <<gridVars, storeVars, pc, shape, nshapes, localBounds, gCall, gShape,
                   marked>>

\* the loops are exhausted: ProcessLandscape and ProcessPrimitiveComponent return
ProcessLandscapeDone ==
    /\ pc = "RasterizeCells" /\ shape.kind = "landscape"
    /\ cursor >= LandscapeLoopIterations(S.grid)
    /\ pc' = "MergeIntoGlobal"
    /\ UNCHANGED <<gridVars, storeVars, shape, nshapes, localBounds, cursor, gCall,
                   gShape, marked>>

NextLandscapeCall ==
    \/ pc = "LoopHead" /\ \E sh \in Landscapes : NextLandscape(sh)
    \/ EndCall
    \/ ComputeLandscapeBounds
    \/ BuildSubGrid
    \/ AllocateLocalStore
    \/ ProcessLandscapeColumn
    \/ ProcessLandscapeDone
    \/ MergeIntoGlobal

SpecLandscape == InitRaster /\ [][NextLandscapeCall]_vars

----------------------------------------------------------------------------
(* Claims checked under SpecLandscape *)

\* a sample of the landscape's surface lies inside or on the box
SurfaceInBox(sh, box) ==
    \E X \in 0..sh.quads, Y \in 0..sh.quads :
        LET px == sh.location.x + X * sh.scale.x
            py == sh.location.y + Y * sh.scale.y
            pz128 == sh.location.z * 128 + CollisionHeight128(sh, X, Y)
        IN  /\ box.min.x <= px /\ px <= box.max.x
            /\ box.min.y <= py /\ py <= box.max.y
            /\ box.min.z * 128 <= pz128 /\ pz128 <= box.max.z * 128

\* C20: after a landscape has been rasterized into an all-false global store and
\* merged, every cell of its local sub-grid that contains a sample of the surface
\* is occupied.
C20_HeightField ==
    (/\ pc \in {"LoopHead", "Done"} /\ nshapes = 1 /\ shape.kind = "landscape"
     /\ S # NoStore /\ \A i \in DOMAIN gCall : ~gCall[i])
    => \A gc \in ValidCoordinates(G.grid) :
            (/\ BoxIsInsideOrOnBox(S.grid.bounds, GetVoxelBounds(G.grid, gc))
             /\ SurfaceInBox(shape, GetVoxelBounds(G.grid, gc)))
            => G.cells[GetVoxelIndex(G.grid, gc)]

----------------------------------------------------------------------------
(* Further claims checked under SpecProxy *)

\* C24: A.IsInsideOrOn(B) is true exactly when all 8 corners of B lie inside or
\* on A, so a box that overlaps A only in part is not reported as inside, and a
\* true answer implies that A.Intersect(B) is true.
C24_IsInsideOrOnAllCorners ==
    q.op = "IsInsideOrOn" =>
        /\ q.result = (\A corner \in GetCorners(q.other) :
                            OBBIsInsideOrOnPoint(q.this, corner))
        /\ q.result => OBBIntersect(q.this, q.other)

\* the centre of the box lies within distance r of the segment from start to
\* end: the closest point of the segment is an end, or the foot of the
\* perpendicular when that lies between the ends
CentreWithinRadius(start, end, r, box) ==
    LET c2 == Vec(box.min.x + box.max.x, box.min.y + box.max.y, box.min.z + box.max.z)
        edge == VecSub(end, start)
        len == Dot(edge, edge)
        s2 == VecSub(c2, VecScale(start, 2))
        e2 == VecSub(c2, VecScale(end, 2))
        t2 == Dot(s2, edge)
        foot == VecSub(VecScale(s2, len), VecScale(edge, t2))
    IN  IF len = 0 \/ t2 < 0 THEN Dot(s2, s2) <= 4 * r * r
        ELSE IF t2 > 2 * len THEN Dot(e2, e2) <= 4 * r * r
        ELSE Dot(foot, foot) <= 4 * r * r * len * len

\* C30: Capsule.Intersects(box) is true for every box whose centre lies within
\* the capsule's radius of its segment, also for a box smaller than the radius
\* that lies between the two ends.
C30_CapsuleInterior ==
    (/\ q.op = "CapsuleIntersects" /\ q.start # q.end
     /\ CentreWithinRadius(q.start, q.end, q.radius, q.box))
    => q.result

----------------------------------------------------------------------------
(* Further claims checked under SpecCombine *)

\* C23: a sub-grid S of a parent grid, built for a box inside the parent's
\* bounds, has as offset the parent's coordinate of S's snapped minimum; for
\* every valid local coordinate c of S the coordinate offset + c is valid in the
\* parent and names the cell with the same world bounds.
C23_SubGridOffset ==
    (S # NoStore /\ S.grid.offset.set) =>
        /\ IsLocationInBounds(G.grid, S.grid.bounds.min)
        /\ S.grid.offset.v = GetVoxelCoordinateLoc(G.grid, S.grid.bounds.min)
        /\ \A c \in ValidCoordinates(S.grid) :
            /\ IsVoxelCoordinateValid(G.grid, VecAdd(S.grid.offset.v, c))
            /\ GetVoxelBounds(G.grid, VecAdd(S.grid.offset.v, c))
                = GetVoxelBounds(S.grid, c)

\* C23's case: a sub-grid of two or more cells of size (2,1,1) whose offset is
\* not zero has been built
C23_Witness ==
    /\ S # NoStore /\ S.grid.offset.set
    /\ S.grid.size = Vec(2, 1, 1)
    /\ S.grid.offset.v # ZeroVector
    /\ GetVoxelCount(S.grid) >= 1
    /\ S.grid.bounds # G.grid.bounds

----------------------------------------------------------------------------
(* SpecStore: construction and Init of an occupancy store, Set and combine *)

\* FVoxelData::Init(const FVoxelGrid& InVoxelGrid) called on store d:
\* NumVoxels = VoxelGrid.GetVoxelCount() is read from the store's own grid,
\* OccupancyData.Init(false, NumVoxels); the argument is not read
VoxelDataInit(d, InVoxelGrid) ==
    [grid |-> d.grid, cells |-> [i \in 0..(GetVoxelCount(d.grid) - 1) |-> FALSE]]

\* the grids handed to the constructor and to Init
StoreGrids == {GridInit(in.size, in.box) : in \in RootInputs}

\* a store on the same cells as d, as a sub-grid store with every cell true
FullSubStore(d) ==
    [grid |-> GridInitSub(d.grid, d.grid.bounds),
     cells |-> [i \in 0..(GetVoxelCount(d.grid) - 1) |-> TRUE]]

\* G is a default-constructed FVoxelData
InitStore ==
    /\ GridIdle /\ RasterIdle
    /\ G = NoStore /\ S = NoStore /\ err = "none" /\ nsets = 0
    /\ last = [op |-> "none"]

\* G = FVoxelData(g)
StoreConstruct(g) ==
    /\ last.op = "none"
    /\ G' = VoxelData(g)
    /\ last' = [op |-> "Construct", grid |-> g]
    /\ UNCHANGED <<S, err, nsets, gridVars, rasterVars>>

\* G.Init(g)
StoreInit(g) ==
    /\ nsets < MaxSets + 1
    /\ nsets' = nsets + 1
    /\ G' = VoxelDataInit(G, g)
    /\ last' = [op |-> "Init", grid |-> g]
    /\ UNCHANGED <<S, err, gridVars, rasterVars>>

\* G.SetOccupancy(i, true) with a valid index
StoreSet(i) ==
    /\ nsets < MaxSets + 1
    /\ IsVoxelIndexValid(G.grid, i)
    /\ nsets' = nsets + 1
    /\ G' = [G EXCEPT !.cells[i] = TRUE]
    /\ last' = [op |-> "Set", grid |-> G.grid]
    /\ UNCHANGED <<S, err, gridVars, rasterVars>>

\* G.And(F) / G.Or(F) / G.Xor(F) for the full sub-grid store F over G's cells
StoreCombine(op) ==
    /\ nsets < MaxSets + 1
    /\ G # NoStore
    /\ nsets' = nsets + 1
    /\ LET r == Combine(G, FullSubStore(G), op, FALSE, [crash |-> TRUE, garbage |-> <<>>])
       IN  G' = [G EXCEPT !.cells = r.cells] /\ err' = r.err
    /\ last' = [op |-> op, grid |-> G.grid]
    /\ UNCHANGED <<S, gridVars, rasterVars>>

NextStore ==
    \/ last.op = "none" /\ \E g \in StoreGrids : StoreConstruct(g)
    \/ nsets < MaxSets + 1 /\ \E g \in StoreGrids : StoreInit(g)
    \/ nsets < MaxSets + 1 /\ \E i \in DOMAIN G.cells : StoreSet(i)
    \/ nsets < MaxSets + 1 /\ \E op \in Ops : StoreCombine(op)

SpecStore == InitStore /\ [][NextStore]_vars

----------------------------------------------------------------------------
(* Claims checked under SpecStore *)

\* C26: after FVoxelData(g) or Init(g) the store's grid equals g (cell size and
\* bounds), every cell is false and the number of cells is g's cell count; and
\* after every operation the number of cells is the cell count of the store's grid.
C26_StoreBoundToGrid ==
    /\ Num(G) = GetVoxelCount(G.grid)
    /\ last.op \in {"Construct", "Init"} =>
        /\ G.grid.size = last.grid.size /\ G.grid.bounds = last.grid.bounds
        /\ Num(G) = GetVoxelCount(last.grid)
        /\ \A i \in DOMAIN G.cells : ~G.cells[i]

----------------------------------------------------------------------------
(* Further claims checked under SpecAccess *)

\* C27: for every location inside or on the grid's bounds, the coordinate
\* GetVoxelCoordinate(location) is valid, GetVoxelIndex(location) is a valid
\* index, the index of that coordinate, the bounds of that cell contain the
\* location, and SetOccupancy(location, v) writes that cell and no other.
C27_LocationOnBounds ==
    (/\ last.op = "Set" /\ last.a.kind = "location"
     /\ IsLocationInBounds(G.grid, last.a.p))
    => LET c == GetVoxelCoordinateLoc(G.grid, last.a.p)
           i == GetVoxelIndexLoc(G.grid, last.a.p)
       IN  /\ IsVoxelCoordinateValid(G.grid, c)
           /\ IsVoxelIndexValid(G.grid, i)
           /\ i = GetVoxelIndex(G.grid, c)
           /\ BoxIsInsideOrOn(GetVoxelBounds(G.grid, c), last.a.p)
           /\ last.err = "none"
           /\ G.cells = [last.this.cells EXCEPT ![i] = last.v]

----------------------------------------------------------------------------
(* Claims about the frame of And / Or / Xor, checked under SpecCombine *)

\* the indices of this store's cells at offset + c for the valid local
\* coordinates c of the other store
OffsetRegion(this, other) ==
    {GetVoxelIndex(this.grid, VecAdd(other.grid.offset.v, c)) :
        c \in ValidCoordinates(other.grid)}

\* C29: And / Or / Xor with a store whose grid carries an offset changes only
\* the cells of this store at offset + c for the valid local coordinates c of
\* the other store; every other cell keeps its value, for AND as well; the other
\* store, this store's grid and this store's number of cells are unchanged.
C29_CombineFrame ==
    (last.op \in Ops /\ ~last.self /\ last.other.grid.offset.set) =>
        /\ \A i \in DOMAIN G.cells :
            i \notin OffsetRegion(last.this, last.other)
                => G.cells[i] = last.this.cells[i]
        /\ S = last.other
        /\ G.grid = last.this.grid
        /\ Num(G) = Num(last.this)

\* C29's case: G.And(S) has run with a sub-grid store S; a cell of G outside
\* S's region was true and still is, a cell inside it was true and is now false
C29_Witness ==
    /\ last.op = "AND" /\ ~last.self /\ last.other.grid.offset.set
    /\ err = "none"
    /\ \E i \in DOMAIN G.cells :
        i \notin OffsetRegion(last.this, last.other) /\ last.this.cells[i] /\ G.cells[i]
    /\ \E i \in OffsetRegion(last.this, last.other) : last.this.cells[i] /\ ~G.cells[i]

----------------------------------------------------------------------------
(* SpecNested: a store on a sub-grid of a sub-grid, merged into the global store *)

\* LocalVoxelData(G.grid.GetSubGrid(boxA).GetSubGrid(boxB)): the inner grid's
\* Offset is its immediate parent's coordinate of boxB.Min
MakeNestedStore(boxA, boxB) ==
    /\ Running /\ S = NoStore
    /\ LET a == GetSubGrid(G.grid, boxA)
           b == IF a.ok THEN GetSubGrid(a.grid, boxB) ELSE a
       IN  /\ err' = b.err
           /\ S' = IF b.ok THEN VoxelData(b.grid) ELSE S
    /\ UNCHANGED <<G, last, nsets, gridVars, rasterVars>>

NextNested ==
    \/ Running /\ S = NoStore /\ \E boxA \in SubBoxes(G.grid) :
            \E boxB \in SubBoxes(GridInit(G.grid.size, boxA)) :
                MakeNestedStore(boxA, boxB)
    \/ Running /\ \E target \in {"G", "S"} :
            \E i \in 0..Num(IF target = "G" THEN G ELSE S) : SetOccupancy(target, i, TRUE)
    \/ Running /\ S # NoStore /\ \E op \in Ops : \E ub \in UbOutcomes(G, S) :
            CombineInto(op, ub)

SpecNested == InitCombine /\ [][NextNested]_vars

----------------------------------------------------------------------------
(* Claims checked under SpecNested *)

\* C28: G.Or(S) for a store S whose grid carries an offset and lies inside G's
\* bounds, also when S's grid is a sub-grid of a sub-grid of G's grid: when the
\* call succeeds every true cell of S has made true the cell of G with the same
\* world bounds; when it fails G's cells are what they were.
C28_NestedMergePosition ==
    (last.op = "OR" /\ ~last.self /\ last.other.grid.offset.set) =>
        IF err = "none"
        THEN \A c \in ValidCoordinates(last.other.grid) :
                last.other.cells[GetVoxelIndex(last.other.grid, c)] =>
                    \E gc \in ValidCoordinates(G.grid) :
                        /\ GetVoxelBounds(G.grid, gc) = GetVoxelBounds(last.other.grid, c)
                        /\ G.cells[GetVoxelIndex(G.grid, gc)]
        ELSE G.cells = last.this.cells

----------------------------------------------------------------------------
(* SpecParallel: the bodies of VoxelateActor's component loop run interleaved, *)
(* one worker per component, each Or into the output store in one step         *)

Workers == {1, 2}

\* components whose bounds lie inside the global grid; their cells overlap
ParallelShapes ==
    {Sphere(Vec(5, 5, 5), 4), Sphere(Vec(6, 6, 6), 6), Sphere(Vec(14, 14, 14), 6),
     AxisBox(Box(ZeroVector, Vec(20, 10, 10)))}

\* the output store when the call starts: all false, or cell 7 already true
ParallelPresets ==
    {[i \in 0..(GetVoxelCount(RasterGrid) - 1) |-> FALSE],
     [i \in 0..(GetVoxelCount(RasterGrid) - 1) |-> i = 7]}

InitParallel ==
    /\ inSize = ZeroVector /\ inBox = Box(ZeroVector, ZeroVector) /\ q = NoQuery
    /\ \E f \in ParallelPresets : G = [grid |-> RasterGrid, cells |-> f]
    /\ err = "none" /\ last = NoOp /\ nsets = 0
    /\ shape \in [Workers -> ParallelShapes]
    /\ nshapes = Cardinality(Workers)
    /\ pc = [k \in Workers |-> "ComputeLocalBounds"]
    /\ S = [k \in Workers |-> NoStore]
    /\ grid = [k \in Workers |-> NoGrid]
    /\ localBounds = [k \in Workers |-> Box(ZeroVector, ZeroVector)]
    /\ cursor = [k \in Workers |-> 0]
    /\ gCall = G.cells /\ gShape = G.cells /\ marked = {}

\* worker k: Component->Bounds.GetBox()
WorkerComputeLocalBounds(k) ==
    /\ pc[k] = "ComputeLocalBounds"
    /\ localBounds' = [localBounds EXCEPT ![k] = ShapeBounds(shape[k])]
    /\ pc' = [pc EXCEPT ![k] = "BuildSubGrid"]
    /\ UNCHANGED <<grid, inSize, inBox, q, storeVars, shape, nshapes, cursor, gCall,
                   gShape, marked>>

\* worker k: LocalVoxelGrid = InVoxelGrid.GetSubGrid(bounds)
WorkerBuildSubGrid(k) ==
    /\ pc[k] = "BuildSubGrid"
    /\ LET r == GetSubGrid(G.grid, localBounds[k]) IN
        /\ grid' = [grid EXCEPT ![k] = r.grid]
        /\ err' = IF r.ok THEN err ELSE r.err
        /\ pc' = [pc EXCEPT ![k] = IF r.ok THEN "AllocateLocalStore" ELSE "Failed"]
    /\ UNCHANGED <<G, S, last, nsets, inSize, inBox, q, shape, nshapes, localBounds,
                   cursor, gCall, gShape, marked>>

\* worker k: FVoxelData LocalVoxelData(LocalVoxelGrid)
WorkerAllocateLocalStore(k) ==
    /\ pc[k] = "AllocateLocalStore"
    /\ S' = [S EXCEPT ![k] = VoxelData(grid[k])]
    /\ cursor' = [cursor EXCEPT ![k] = 0]
    /\ pc' = [pc EXCEPT ![k] = "RasterizeCells"]
    /\ UNCHANGED <<gridVars, G, err, last, nsets, shape, nshapes, localBounds, gCall,
                   gShape, marked>>

\* worker k: one iteration of the loops of ProcessCollisionSphere / ProcessCollisionBox
WorkerRasterizeCell(k) ==
    /\ pc[k] = "RasterizeCells" /\ cursor[k] < LoopIterations(S[k].grid)
    /\ LET c == LoopCoordinate(S[k].grid, cursor[k])
           Index == GetVoxelIndex(S[k].grid, c)
       IN  S' = IF /\ ~S[k].cells[Index]
                   /\ ShapeIntersects(shape[k], GetVoxelBounds(S[k].grid, c))
                THEN [S EXCEPT ![k].cells[Index] = TRUE]
                ELSE S
    /\ cursor' = [cursor EXCEPT ![k] = cursor[k] + 1]
    /\ UNCHANGED <<gridVars, G, err, last, nsets, pc, shape, nshapes, localBounds,
                   gCall, gShape, marked>>

\* worker k: the loops are exhausted, ProcessPrimitiveComponent returns
WorkerRasterizeDone(k) ==
    /\ pc[k] = "RasterizeCells" /\ cursor[k] >= LoopIterations(S[k].grid)
    /\ pc' = [pc EXCEPT ![k] = "MergeIntoGlobal"]
    /\ UNCHANGED <<gridVars, storeVars, shape, nshapes, localBounds, cursor, gCall,
                   gShape, marked>>

\* worker k: OutVoxelData.Or(LocalVoxelData), in one step
WorkerMergeIntoGlobal(k) ==
    /\ pc[k] = "MergeIntoGlobal"
    /\ LET r == Combine(G, S[k], MergeOp, FALSE, [crash |-> TRUE, garbage |-> <<>>]) IN
        /\ G' = [G EXCEPT !.cells = r.cells]
        /\ err' = IF r.err = "none" THEN err ELSE r.err
        /\ pc' = [pc EXCEPT ![k] = IF r.err = "none" THEN "Done" ELSE "Failed"]
    /\ UNCHANGED <<gridVars, S, last, nsets, shape, nshapes, localBounds, cursor, gCall,
                   gShape, marked>>

NextParallel ==
    \/ \E k \in Workers : WorkerComputeLocalBounds(k)
    \/ \E k \in Workers : WorkerBuildSubGrid(k)
    \/ \E k \in Workers : WorkerAllocateLocalStore(k)
    \/ \E k \in Workers : WorkerRasterizeCell(k)
    \/ \E k \in Workers : WorkerRasterizeDone(k)
    \/ \E k \in Workers : WorkerMergeIntoGlobal(k)

SpecParallel == InitParallel /\ [][NextParallel]_vars

----------------------------------------------------------------------------
(* Claims checked under SpecParallel *)

\* the cells of the global grid a shape marks: those of its local sub-grid whose
\* bounds pass the shape's test; a function of the shape alone
ExpectedMarks(sh) ==
    {GetVoxelIndex(RasterGrid, gc) : gc \in
        {c \in ValidCoordinates(RasterGrid) :
            /\ BoxIsInsideOrOnBox(GridInit(RasterGrid.size, ShapeBounds(sh)).bounds,
                                  GetVoxelBounds(RasterGrid, c))
            /\ ShapeIntersects(sh, GetVoxelBounds(RasterGrid, c))}}

C21_State ==
    /\ (\A k \in Workers : pc[k] = "Done") =>
            G.cells = [i \in DOMAIN gCall |->
                        gCall[i] \/ \E k \in Workers : i \in ExpectedMarks(shape[k])]
    /\ \A k \in Workers :
        pc[k] \in {"MergeIntoGlobal", "Done"} =>
            \A c \in ValidCoordinates(S[k].grid) :
                S[k].cells[GetVoxelIndex(S[k].grid, c)]
                    = ShapeIntersects(shape[k], GetVoxelBounds(S[k].grid, c))
    /\ \A k \in Workers : pc[k] # "Failed"

C21_Step ==
    /\ \A k \in Workers :
        S'[k] # S[k] =>
            /\ G' = G
            /\ \A j \in Workers \ {k} : S'[j] = S[j]
    /\ G' # G =>
        \E k \in Workers :
            /\ pc[k] = "MergeIntoGlobal" /\ pc'[k] = "Done"
            /\ S' = S
            /\ \A j \in Workers \ {k} : pc'[j] = pc[j]

\* C21: for shapes whose bounds lie inside the global grid the final global
\* store is the initial store joined with the cells each shape marks, whatever
\* the order and interleaving of the workers' steps, each merge being one step;
\* a worker's local store holds the result of its own shape's tests whatever
\* the global store and the other local stores hold; a rasterization step
\* changes only its own local store and the global store changes only in merges.
C21_OrderIndependent == [](C21_State) /\ [][C21_Step]_vars

\* C21's case: worker 2 has merged before worker 1, whose shape is a different
\* one marking a common cell and whose rasterization ran while the global store
\* already differed from its initial contents
C21_Witness ==
    /\ pc[2] = "Done" /\ pc[1] = "RasterizeCells" /\ cursor[1] > 0
    /\ shape[1] # shape[2]
    /\ ExpectedMarks(shape[1]) \cap ExpectedMarks(shape[2]) # {}
    /\ ExpectedMarks(shape[1]) # ExpectedMarks(shape[2])
    /\ G.cells # gCall

----------------------------------------------------------------------------
(* FTriangleProxy *)

\* triangle vertices lie on the lattice points 0, 4, .., 4 * MaxTri per axis
MaxTri == 1

Cross(a, b) ==
    Vec(a.y * b.z - a.z * b.y, a.z * b.x - a.x * b.z, a.x * b.y - a.y * b.x)

\* FTriangleProxy(V0, V1, V2): the array V[3]
Triangle(V0, V1, V2) == [i \in 0..2 |-> IF i = 0 THEN V0 ELSE IF i = 1 THEN V1 ELSE V2]

GetTriangleWinding(t) ==
    LET Edge1 == VecSub(t[1], t[0])
        Edge2 == VecSub(t[2], t[0])
        CrossV == Cross(Edge1, Edge2)
        DotV == Dot(CrossV, t[0])
    IN  IF DotV > 0 THEN "CCW" ELSE IF DotV < 0 THEN "CW" ELSE "Colinear"

TriangleWithWindingSwapOnMatch(V0, V1, V2, Winding) ==
    IF GetTriangleWinding(Triangle(V0, V1, V2)) = Winding
    THEN Triangle(V0, V2, V1) ELSE Triangle(V0, V1, V2)

\* FTriangleProxy(V0, V1, V2, Winding)
TriangleWithWinding(V0, V1, V2, Winding) ==
    IF GetTriangleWinding(Triangle(V0, V1, V2)) # Winding
    THEN Triangle(V0, V2, V1) ELSE Triangle(V0, V1, V2)

GetTriangleWithWinding(t, NewWinding) ==
    IF GetTriangleWinding(t) = NewWinding THEN t ELSE Triangle(t[0], t[2], t[1])

Min3(a, b, c) == Minimum({a, b, c})
Max3(a, b, c) == Maximum({a, b, c})

IntersectsTriangleAABBSat(t, Extent, Axis) ==
    LET P0 == Dot(t[0], Axis)
        P1 == Dot(t[1], Axis)
        P2 == Dot(t[2], Axis)
        R == Extent.x * Abs(Dot(Vec(1, 0, 0), Axis))
             + Extent.y * Abs(Dot(Vec(0, 1, 0), Axis))
             + Extent.z * Abs(Dot(Vec(0, 0, 1), Axis))
        MinP == Min3(P0, P1, P2)
        MaxP == Max3(P0, P1, P2)
    IN  ~(Maximum({0 - MaxP, MinP}) > R)

\* Translate(-Other.GetCenter()) and Other.GetExtent(), both times two so that a
\* box with odd Min + Max keeps integer coordinates
TranslatedTriangle(t, Other) ==
    [i \in 0..2 |-> VecSub(VecScale(t[i], 2), VecAdd(Other.min, Other.max))]
Extent2(Other) == VecSub(Other.max, Other.min)

TriangleIntersectsBoxAxesOnly(t, Other) ==
    LET T == TranslatedTriangle(t, Other)
        E == Extent2(Other)
    IN  /\ IntersectsTriangleAABBSat(T, E, Vec(1, 0, 0))
        /\ IntersectsTriangleAABBSat(T, E, Vec(0, 1, 0))
        /\ IntersectsTriangleAABBSat(T, E, Vec(0, 0, 1))

\* FTriangleProxy::Intersects(const FBox&).  AB.Normalize() divides an edge by
\* its length, or leaves it as it is when the length is below the tolerance: a
\* zero edge stays zero.  Each axis test compares projections that scale with
\* the axis, so its outcome for an axis and for a positive multiple of it is
\* the same; the edges are kept here at their length times the normalized edge.
TriangleIntersects(t, Other) ==
    LET T == TranslatedTriangle(t, Other)
        A == T[0]
        B == T[1]
        C == T[2]
        AB == VecSub(B, A)
        BC == VecSub(C, B)
        CA == VecSub(A, C)
        E == Extent2(Other)
        A00 == Vec(0, 0 - AB.z, AB.y)
        A01 == Vec(0, 0 - BC.z, BC.y)
        A02 == Vec(0, 0 - CA.z, CA.y)
        A10 == Vec(AB.z, 0, 0 - AB.x)
        A11 == Vec(BC.z, 0, 0 - BC.x)
        A12 == Vec(CA.z, 0, 0 - CA.x)
        A20 == Vec(0 - AB.y, AB.x, 0)
        A21 == Vec(0 - BC.y, BC.x, 0)
        A22 == Vec(0 - CA.y, CA.x, 0)
    IN  /\ IntersectsTriangleAABBSat(T, E, A00)
        /\ IntersectsTriangleAABBSat(T, E, A01)
        /\ IntersectsTriangleAABBSat(T, E, A02)
        /\ IntersectsTriangleAABBSat(T, E, A10)
        /\ IntersectsTriangleAABBSat(T, E, A11)
        /\ IntersectsTriangleAABBSat(T, E, A12)
        /\ IntersectsTriangleAABBSat(T, E, A20)
        /\ IntersectsTriangleAABBSat(T, E, A21)
        /\ IntersectsTriangleAABBSat(T, E, A22)
        /\ IntersectsTriangleAABBSat(T, E, Vec(1, 0, 0))
        /\ IntersectsTriangleAABBSat(T, E, Vec(0, 1, 0))
        /\ IntersectsTriangleAABBSat(T, E, Vec(0, 0, 1))
        /\ IntersectsTriangleAABBSat(T, E, Cross(AB, BC))

----------------------------------------------------------------------------
(* SpecTriangle: one call of a FTriangleProxy operation on bounded inputs *)

TriPoints ==
    {Vec(4 * x, 4 * y, 4 * z) : x \in 0..MaxTri, y \in 0..MaxTri, z \in 0..MaxTri}

Triangles == {Triangle(a, b, c) : a \in TriPoints, b \in TriPoints, c \in TriPoints}

Windings == {"CW", "CCW", "Colinear"}

\* voxel bounds handed to Intersects by ProcessCollisionConvex
TriBoxes ==
    {Box(Vec(0, 0, 0), Vec(1, 1, 1)), Box(Vec(1, 1, 1), Vec(2, 2, 2)),
     Box(Vec(1, 1, 1), Vec(3, 3, 3)), Box(Vec(1, 0, 1), Vec(3, 1, 2)),
     Box(Vec(0, 0, 1), Vec(1, 1, 3)), Box(Vec(3, 3, 3), Vec(4, 4, 4)),
     Box(Vec(2, 2, 2), Vec(5, 5, 5))}

InitTriangle == GridIdle /\ StoreIdle /\ RasterIdle

CallGetTriangleWinding(t) ==
    /\ q.op = "none"
    /\ q' = [op |-> "GetTriangleWinding", this |-> t, result |-> GetTriangleWinding(t)]
    /\ UNCHANGED <<grid, inSize, inBox, storeVars, rasterVars>>

CallConstructWithWinding(V0, V1, V2, W) ==
    /\ q.op = "none"
    /\ q' = [op |-> "FTriangleProxy", this |-> Triangle(V0, V1, V2), winding |-> W,
             result |-> TriangleWithWinding(V0, V1, V2, W)]
    /\ UNCHANGED <<grid, inSize, inBox, storeVars, rasterVars>>

CallGetTriangleWithWinding(t, W) ==
    /\ q.op = "none"
    /\ q' = [op |-> "GetTriangleWithWinding", this |-> t, winding |-> W,
             result |-> GetTriangleWithWinding(t, W)]
    /\ UNCHANGED <<grid, inSize, inBox, storeVars, rasterVars>>

CallTriangleIntersects(t, box) ==
    /\ q.op = "none"
    /\ q' = [op |-> "TriangleIntersects", this |-> t, other |-> box,
             result |-> TriangleIntersects(t, box)]
    /\ UNCHANGED <<grid, inSize, inBox, storeVars, rasterVars>>

NextTriangle ==
    \/ q.op = "none" /\ \E t \in Triangles : CallGetTriangleWinding(t)
    \/ q.op = "none" /\ \E t \in Triangles, W \in Windings :
            CallConstructWithWinding(t[0], t[1], t[2], W)
    \/ q.op = "none" /\ \E t \in Triangles, W \in Windings :
            CallGetTriangleWithWinding(t, W)
    \/ q.op = "none" /\ \E t \in Triangles, box \in TriBoxes :
            CallTriangleIntersects(t, box)

SpecTriangle == InitTriangle /\ [][NextTriangle]_vars

----------------------------------------------------------------------------
(* Claims checked under SpecTriangle *)

\* the determinant of the rows v1 - v0, v2 - v0, v0
SignedVolume(t) ==
    LET a == VecSub(t[1], t[0])
        b == VecSub(t[2], t[0])
        c == t[0]
    IN  a.x * (b.y * c.z - b.z * c.y) - a.y * (b.x * c.z - b.z * c.x)
        + a.z * (b.x * c.y - b.y * c.x)

\* C25: GetTriangleWinding returns CCW, CW or Colinear as the signed volume
\* (v1 - v0) x (v2 - v0) . v0 is positive, negative or zero; a triangle built
\* with a requested winding CW or CCW, and the one GetTriangleWithWinding
\* returns, has that winding when the signed volume of the input is not zero,
\* and is the input or the input with v1 and v2 exchanged.
C25_Winding ==
    /\ q.op = "GetTriangleWinding" =>
        q.result = (IF SignedVolume(q.this) > 0 THEN "CCW"
                    ELSE IF SignedVolume(q.this) < 0 THEN "CW" ELSE "Colinear")
    /\ q.op \in {"FTriangleProxy", "GetTriangleWithWinding"} =>
        /\ q.result[0] = q.this[0]
        /\ {q.result[i] : i \in 0..2} = {q.this[i] : i \in 0..2}
        /\ \/ q.result = q.this
           \/ q.result[1] = q.this[2] /\ q.result[2] = q.this[1]
        /\ (q.winding \in {"CW", "CCW"} /\ SignedVolume(q.this) # 0) =>
                GetTriangleWinding(q.result) = q.winding

\* C25's case: a triangle of non-zero signed volume built with the winding it
\* does not have, so that v1 and v2 are exchanged
C25_Witness ==
    /\ q.op = "FTriangleProxy"
    /\ SignedVolume(q.this) > 0 /\ q.winding = "CW"
    /\ q.result # q.this
    /\ GetTriangleWinding(q.result) = "CW"

\* some t in [0, 1] puts P + t (Q - P) inside the box: the slab bounds of t,
\* as fractions with positive denominators, leave a non-empty interval
SegmentMeetsBox(P, Q, box) ==
    LET d == VecSub(Q, P)
        Moving == {i \in 0..2 : Comp(d, i) # 0}
        Lower == {<<0, 1>>} \cup
                 {IF Comp(d, i) > 0
                  THEN <<Comp(box.min, i) - Comp(P, i), Comp(d, i)>>
                  ELSE <<Comp(P, i) - Comp(box.max, i), 0 - Comp(d, i)>> : i \in Moving}
        Upper == {<<1, 1>>} \cup
                 {IF Comp(d, i) > 0
                  THEN <<Comp(box.max, i) - Comp(P, i), Comp(d, i)>>
                  ELSE <<Comp(P, i) - Comp(box.min, i), 0 - Comp(d, i)>> : i \in Moving}
    IN  /\ \A i \in (0..2) \ Moving :
            Comp(box.min, i) <= Comp(P, i) /\ Comp(P, i) <= Comp(box.max, i)
        /\ \A l \in Lower, u \in Upper : l[1] * u[2] <= u[1] * l[2]

UnitAxis(i) == Vec(IF i = 0 THEN 1 ELSE 0, IF i = 1 THEN 1 ELSE 0, IF i = 2 THEN 1 ELSE 0)

\* the edge of the box that starts at corner Q0 and runs along axis i crosses
\* the plane of the triangle (normal n, not parallel to the edge) in a point of
\* the triangle
BoxEdgeMeetsTriangle(t, box, Q0, i) ==
    LET n == Cross(VecSub(t[1], t[0]), VecSub(t[2], t[0]))
        L == Comp(box.max, i) - Comp(box.min, i)
        sg == IF Comp(n, i) < 0 THEN 0 - 1 ELSE 1
        den == sg * Comp(n, i)
        num == sg * Dot(n, VecSub(t[0], Q0))
        X == VecAdd(VecScale(Q0, den), VecScale(UnitAxis(i), num))
        Side(a, b) == Dot(Cross(VecSub(b, a), VecSub(X, VecScale(a, den))), n)
    IN  /\ Comp(n, i) # 0
        /\ 0 <= num /\ num <= L * den
        /\ Side(t[0], t[1]) >= 0 /\ Side(t[1], t[2]) >= 0 /\ Side(t[2], t[0]) >= 0

\* reference overlap test: the triangle and the box share a point iff an edge of
\* the triangle meets the box or an edge of the box meets the triangle
TriangleBoxOverlap(t, box) ==
    \/ SegmentMeetsBox(t[0], t[1], box)
    \/ SegmentMeetsBox(t[1], t[2], box)
    \/ SegmentMeetsBox(t[2], t[0], box)
    \/ \E i \in 0..2 :
        \E Q0 \in {c \in {Vec(x, y, z) : x \in {box.min.x, box.max.x},
                                        y \in {box.min.y, box.max.y},
                                        z \in {box.min.z, box.max.z}} :
                    Comp(c, i) = Comp(box.min, i)} :
            BoxEdgeMeetsTriangle(t, box, Q0, i)

\* the 13 axes: the box face normals, the triangle normal, edge x face normal
ThirteenAxes(t) ==
    LET Edges == {VecSub(t[1], t[0]), VecSub(t[2], t[1]), VecSub(t[0], t[2])}
    IN  {UnitAxis(i) : i \in 0..2}
        \cup {Cross(VecSub(t[1], t[0]), VecSub(t[2], t[0]))}
        \cup {Cross(e, UnitAxis(i)) : e \in Edges, i \in 0..2}

\* the axis separates the triangle's vertices from the box: the interval of the
\* vertices' projections and the interval of the box's corners' projections
\* are disjoint
Separates(t, box, Axis) ==
    LET Corners == {Vec(x, y, z) : x \in {box.min.x, box.max.x},
                                   y \in {box.min.y, box.max.y},
                                   z \in {box.min.z, box.max.z}}
        TP == {Dot(t[i], Axis) : i \in 0..2}
        BP == {Dot(c, Axis) : c \in Corners}
    IN  Maximum(TP) < Minimum(BP) \/ Maximum(BP) < Minimum(TP)

ZeroArea(t) == Cross(VecSub(t[1], t[0]), VecSub(t[2], t[0])) = ZeroVector

\* C22: Triangle.Intersects(box) is true iff none of the 13 axes separates the
\* triangle from the box, and it agrees with the reference overlap test for
\* every triangle and box of the input sets, zero-area triangles included, for
\* which it yields a result.
C22_TriangleIntersects ==
    q.op = "TriangleIntersects" =>
        /\ q.result \in BOOLEAN
        /\ q.result = (\A Axis \in ThirteenAxes(q.this) : ~Separates(q.this, q.other, Axis))
        /\ q.result = TriangleBoxOverlap(q.this, q.other)

\* C22's case: a triangle that meets the box with none of its vertices inside
\* it and none of its edges touching it
C22_Witness ==
    /\ q.op = "TriangleIntersects" /\ q.result
    /\ ~ZeroArea(q.this)
    /\ ~SegmentMeetsBox(q.this[0], q.this[1], q.other)
    /\ ~SegmentMeetsBox(q.this[1], q.this[2], q.other)
    /\ ~SegmentMeetsBox(q.this[2], q.this[0], q.other)

====
